---- MODULE Spec2Model ----
(***************************************************************************)
(* Verification model of the interbank systemic-risk simulator.            *)
(*                                                                         *)
(* Two surfaces of the repository are modelled:                            *)
(*   - the step-driven session manager, StatefulSimulation                 *)
(*     (backend/app/core/stateful_simulation.py): SessionSpec;             *)
(*   - the streaming kernel, interactive_simulation_generator, with its    *)
(*     control endpoints (backend/app/routers/interactive_simulation.py)   *)
(*     and the Bank / BalanceSheet / Market / cascade code it drives:      *)
(*     StreamSpec.                                                         *)
(*                                                                         *)
(* Money is fixed point: one unit is 0.01 (million).  Ratios are per       *)
(* mille.  Python float products are computed with floor division at the   *)
(* point the source multiplies.  Every random draw of the source is a      *)
(* choice from a small named set inside the range the source draws from.   *)
(***************************************************************************)
EXTENDS Integers, Sequences, FiniteSets, TLC

VARIABLES
    \* ---- StatefulSimulation (one session object) ----
    state,          \* SimulationState
    current_step,   \* self.current_step
    total_steps,    \* self.total_steps
    sbanks,         \* self.banks: sequence of BankState records, BANK_1 .. BANK_n
    connections,    \* self.connections: sequence of Connection records (dict order)
    events,         \* self.events: sequence of SimulationEvent (type, step)
    total_defaults, \* self.metrics["total_defaults"]
    momentum,       \* MarketState.momentum of the session's markets
    ms_momentum,    \* self.market_system.momentum
    injections,     \* capital injections made so far (bounds the model)
    result          \* outcome of the last call on the session: return or raise

VARIABLES
    \* ---- interactive_simulation_generator and ACTIVE_SIMULATION ----
    pc,             \* where the generator is suspended
    config,         \* the SimulationConfig the stream was started with
    t,              \* loop variable of the step loop (state.time_step)
    bank_idx,       \* loop variable of the per-bank loop
    banks,          \* state.banks: bank_id -> Bank with its BalanceSheet
    markets,        \* state.markets.markets: market_id -> Market
    step_market_flows,   \* the step's flow accumulator per market
    defaults_this_step,  \* state.defaults_this_step
    cascade_depth,  \* state.cascade_depth
    is_running,     \* ACTIVE_SIMULATION["is_running"]
    is_paused,      \* ACTIVE_SIMULATION["is_paused"]
    control_queue,  \* ACTIVE_SIMULATION["control_queue"]
    ledger,         \* GLOBAL_LEDGER
    stream,         \* the events the generator has yielded
    ncommands,      \* control requests made so far (bounds the model)
    npolls          \* empty polls of the pause loop so far (bounds the model)

gvars == <<pc, config, t, bank_idx, banks, markets, step_market_flows,
           defaults_this_step, cascade_depth, is_running, is_paused,
           control_queue, ledger, stream, ncommands, npolls>>

svars == <<state, current_step, total_steps, sbanks, connections, events,
           total_defaults, momentum, ms_momentum, injections, result>>

vars == <<svars, gvars>>

----------------------------------------------------------------------------
\* Bounds of the model.
MaxSteps == 2          \* largest "steps" value of a simulation config
MaxBanks == 2          \* banks created in one session
MaxInjections == 1     \* capital injections per session
MaxConnections == 1    \* connections created in one session

\* Fixed point.
UNIT == 100            \* one million, in model units
PM == 1000             \* per mille

Min(a, b) == IF a <= b THEN a ELSE b
Max(a, b) == IF a >= b THEN a ELSE b
Abs(a) == IF a >= 0 THEN a ELSE -a

----------------------------------------------------------------------------
\* StatefulSimulation

SimulationStates ==
    {"UNINITIALIZED", "INITIALIZED", "RUNNING", "PAUSED", "STOPPED", "COMPLETED"}

BankObjectives == {"SURVIVAL", "GROWTH", "AGGRESSIVE"}

\* Inputs of the session calls.
StepsInputs == 0..MaxSteps
CapitalInputs == {0, 100 * UNIT}
LeverageInputs == {3}
RiskInputs == {200}
ExposureInputs == {40 * UNIT}
InjectionInputs == {50 * UNIT}
UpdateInputs == {<<"objective", "AGGRESSIVE">>, <<"target_leverage", 2 * PM>>}
MOM == 10000                    \* scale of a momentum value
DefaultMomentum == 1000         \* market_config momentum 0.1, in 1/MOM

\* cash / (cash + borrowed), 0 when the denominator is not positive
LiquidityRatio(cash, borrowed) ==
    IF cash + borrowed > 0 THEN (cash * PM) \div (cash + borrowed) ELSE 0

\* What a call on the session hands back: a return value or a raised error.
\* step_events is the "events" list execute_step returns.
Ok == [ok |-> TRUE, status |-> "ok", step_events |-> <<>>]
Err == [ok |-> FALSE, status |-> "error", step_events |-> <<>>]

SessionInit ==
    /\ state = "UNINITIALIZED"
    /\ current_step = 0
    /\ total_steps = 0
    /\ sbanks = <<>>
    /\ connections = <<>>
    /\ events = <<>>
    /\ total_defaults = 0
    /\ momentum = 0
    /\ ms_momentum = 0
    /\ injections = 0
    /\ result = Ok

\* StatefulSimulation.initialize
Initialize(steps) ==
    IF state # "UNINITIALIZED"
    THEN /\ result' = Err
         /\ UNCHANGED <<state, current_step, total_steps, sbanks, connections,
                        events, total_defaults, momentum, ms_momentum, injections>>
    ELSE /\ total_steps' = steps
         /\ momentum' = 0
         /\ current_step' = 0
         /\ events' = Append(events, [type |-> "init", step |-> 0])
         /\ state' = "INITIALIZED"
         /\ result' = Ok
         /\ ms_momentum' = DefaultMomentum
         /\ UNCHANGED <<sbanks, connections, total_defaults, injections>>

\* start that also accepts a stopped session
StartAfterStop ==
    IF state \notin {"INITIALIZED", "STOPPED"}
    THEN /\ result' = Err
         /\ UNCHANGED <<state, current_step, total_steps, sbanks, connections,
                        events, total_defaults, momentum, ms_momentum, injections>>
    ELSE /\ state' = "RUNNING"
         /\ events' = Append(events, [type |-> "start", step |-> current_step])
         /\ result' = Ok
         /\ UNCHANGED <<current_step, total_steps, sbanks, connections,
                        total_defaults, momentum, ms_momentum, injections>>

\* StatefulSimulation.start
Start ==
    IF state # "INITIALIZED"
    THEN /\ result' = Err
         /\ UNCHANGED <<state, current_step, total_steps, sbanks, connections,
                        events, total_defaults, momentum, ms_momentum, injections>>
    ELSE /\ state' = "RUNNING"
         /\ events' = Append(events, [type |-> "start", step |-> current_step])
         /\ result' = Ok
         /\ UNCHANGED <<current_step, total_steps, sbanks, connections,
                        total_defaults, momentum, ms_momentum, injections>>

\* pause that assigns the state before it checks the state
PauseAssignsFirst ==
    IF state # "RUNNING"
    THEN /\ state' = "PAUSED"
         /\ result' = Err
         /\ UNCHANGED <<current_step, total_steps, sbanks, connections,
                        events, total_defaults, momentum, ms_momentum, injections>>
    ELSE /\ state' = "PAUSED"
         /\ result' = Ok
         /\ UNCHANGED <<current_step, total_steps, sbanks, connections, events,
                        total_defaults, momentum, ms_momentum, injections>>

\* StatefulSimulation.pause
Pause ==
    IF state # "RUNNING"
    THEN /\ result' = Err
         /\ UNCHANGED <<state, current_step, total_steps, sbanks, connections,
                        events, total_defaults, momentum, ms_momentum, injections>>
    ELSE /\ state' = "PAUSED"
         /\ result' = Ok
         /\ UNCHANGED <<current_step, total_steps, sbanks, connections, events,
                        total_defaults, momentum, ms_momentum, injections>>

\* resume that accepts any state but RUNNING
ResumeFromAny ==
    IF state = "RUNNING"
    THEN /\ result' = Err
         /\ UNCHANGED <<state, current_step, total_steps, sbanks, connections,
                        events, total_defaults, momentum, ms_momentum, injections>>
    ELSE /\ state' = "RUNNING"
         /\ result' = Ok
         /\ UNCHANGED <<current_step, total_steps, sbanks, connections, events,
                        total_defaults, momentum, ms_momentum, injections>>

\* StatefulSimulation.resume
Resume ==
    IF state # "PAUSED"
    THEN /\ result' = Err
         /\ UNCHANGED <<state, current_step, total_steps, sbanks, connections,
                        events, total_defaults, momentum, ms_momentum, injections>>
    ELSE /\ state' = "RUNNING"
         /\ result' = Ok
         /\ UNCHANGED <<current_step, total_steps, sbanks, connections, events,
                        total_defaults, momentum, ms_momentum, injections>>

\* StatefulSimulation.stop (with _finalize_metrics, which only recomputes
\* derived metrics)
Stop ==
    IF state \notin {"RUNNING", "PAUSED"}
    THEN /\ result' = Err
         /\ UNCHANGED <<state, current_step, total_steps, sbanks, connections,
                        events, total_defaults, momentum, ms_momentum, injections>>
    ELSE /\ state' = "STOPPED"
         /\ result' = Ok
         /\ UNCHANGED <<current_step, total_steps, sbanks, connections, events,
                        total_defaults, momentum, ms_momentum, injections>>

\* StatefulSimulation.create_bank: refused only while RUNNING
CreateBank(capital, target_leverage, risk_factor, objective) ==
    IF state = "RUNNING"
    THEN /\ result' = Err
         /\ UNCHANGED <<state, current_step, total_steps, sbanks, connections,
                        events, total_defaults, momentum, ms_momentum, injections>>
    ELSE LET borrowed == capital * target_leverage
             cash == capital + borrowed \div 2
         IN /\ sbanks' = Append(sbanks,
                   [capital |-> capital,
                    target_leverage |-> target_leverage * PM,
                    risk_factor |-> risk_factor,
                    objective |-> objective,
                    cash |-> cash,
                    investments |-> 0,
                    loans_given |-> 0,
                    borrowed |-> borrowed,
                    equity |-> capital,
                    leverage |-> target_leverage * PM,
                    liquidity_ratio |-> LiquidityRatio(cash, borrowed),
                    market_exposure |-> 0,
                    is_defaulted |-> FALSE,
                    default_step |-> -1])
            /\ result' = Ok
            /\ UNCHANGED <<state, current_step, total_steps, connections, events,
                           total_defaults, momentum, ms_momentum, injections>>

\* StatefulSimulation.update_bank: any state; only the allowed fields
UpdateBank(i, key, value) ==
    IF i \notin DOMAIN sbanks
    THEN /\ result' = Err
         /\ UNCHANGED <<state, current_step, total_steps, sbanks, connections,
                        events, total_defaults, momentum, ms_momentum, injections>>
    ELSE /\ sbanks' = [sbanks EXCEPT ![i] =
                          IF key = "objective" THEN [@ EXCEPT !.objective = value]
                          ELSE IF key = "target_leverage"
                               THEN [@ EXCEPT !.target_leverage = value]
                               ELSE @]
         /\ result' = Ok
         /\ UNCHANGED <<state, current_step, total_steps, connections, events,
                        total_defaults, momentum, ms_momentum, injections>>

\* Position of the connection with id CONN_<from>_<to>, 0 when there is none
ConnIndex(conns, from, to) ==
    IF \E k \in DOMAIN conns : conns[k].from_bank = from /\ conns[k].to_bank = to
    THEN CHOOSE k \in DOMAIN conns : conns[k].from_bank = from /\ conns[k].to_bank = to
    ELSE 0

\* StatefulSimulation.create_connection: any state; both banks must exist
CreateConnection(from, to, exposure) ==
    IF from \notin DOMAIN sbanks \/ to \notin DOMAIN sbanks
    THEN /\ result' = Err
         /\ UNCHANGED <<state, current_step, total_steps, sbanks, connections,
                        events, total_defaults, momentum, ms_momentum, injections>>
    ELSE LET c == [from_bank |-> from, to_bank |-> to, exposure |-> exposure]
             k == ConnIndex(connections, from, to)
         IN /\ connections' = IF k = 0 THEN Append(connections, c)
                              ELSE [connections EXCEPT ![k] = c]
            /\ result' = Ok
            /\ UNCHANGED <<state, current_step, total_steps, sbanks, events,
                           total_defaults, momentum, ms_momentum, injections>>

\* StatefulSimulation.add_capital_injection
AddCapitalInjection(i, amount) ==
    IF i \notin DOMAIN sbanks
    THEN /\ result' = Err
         /\ UNCHANGED <<state, current_step, total_steps, sbanks, connections,
                        events, total_defaults, momentum, ms_momentum, injections>>
    ELSE /\ injections < MaxInjections
         /\ injections' = injections + 1
         /\ sbanks' = [sbanks EXCEPT ![i] =
                          [@ EXCEPT !.cash = @ + amount,
                                    !.equity = @ + amount,
                                    !.capital = @ + amount]]
         /\ events' = Append(events,
                          [type |-> "capital_injection", step |-> current_step])
         /\ result' = Ok
         /\ UNCHANGED <<state, current_step, total_steps, connections,
                        total_defaults, momentum, ms_momentum>>

----------------------------------------------------------------------------
\* The nine phases of StatefulSimulation.execute_step

ActionTypes == {"INVEST_MARKET", "DIVEST_MARKET", "LEND_INTERBANK",
                "BORROW_INTERBANK", "HOARD_CASH", "REDUCE_LEVERAGE"}

\* StatefulSimulation._select_bank_action: the actions the bank may select
\* (GROWTH draws random.random())
SelectBankAction(b) ==
    IF b.liquidity_ratio < 200 THEN {"HOARD_CASH"}
    ELSE IF b.objective = "SURVIVAL"
         THEN IF b.leverage * 10 > b.target_leverage * 11
              THEN {"REDUCE_LEVERAGE"} ELSE {"HOARD_CASH"}
    ELSE IF b.objective = "GROWTH" THEN {"INVEST_MARKET", "LEND_INTERBANK"}
    ELSE IF b.objective = "AGGRESSIVE" THEN {"INVEST_MARKET"}
    ELSE {"HOARD_CASH"}

\* StatefulSimulation.execute_action: the bank after the action
ExecuteAction(b, action) ==
    IF action = "INVEST_MARKET"
    THEN LET amount == Min((((b.cash * 96) \div PM) * (PM + b.risk_factor)) \div PM, b.cash)
         IN IF amount > 0
            THEN [b EXCEPT !.cash = @ - amount,
                           !.investments = @ + amount,
                           !.market_exposure = @ + amount]
            ELSE b
    ELSE IF action = "DIVEST_MARKET"
    THEN LET amount == Min(b.investments \div 10, b.investments)
         IN IF amount > 0
            THEN [b EXCEPT !.investments = @ - amount,
                           !.cash = @ + (amount * 98) \div 100,
                           !.market_exposure = @ - amount]
            ELSE b
    ELSE IF action = "REDUCE_LEVERAGE"
    THEN LET paydown == Min(b.cash \div 10, b.borrowed \div 20)
         IN IF paydown > 0
            THEN [b EXCEPT !.cash = @ - paydown,
                           !.borrowed = @ - paydown,
                           !.leverage = IF b.equity > 0
                                        THEN ((b.borrowed - paydown) * PM) \div b.equity
                                        ELSE 0]
            ELSE b
    ELSE b

\* The amount execute_action reports
ActionAmount(b, action) ==
    IF action = "INVEST_MARKET"
    THEN Min((((b.cash * 96) \div PM) * (PM + b.risk_factor)) \div PM, b.cash)
    ELSE IF action = "DIVEST_MARKET" THEN Min(b.investments \div 10, b.investments)
    ELSE IF action = "REDUCE_LEVERAGE" THEN Min(b.cash \div 10, b.borrowed \div 20)
    ELSE 0

\* _phase_strategy_selection then _phase_action_execution: strat maps every
\* non-defaulted bank to the action it selected
PhaseActions(bs, strat) ==
    [i \in DOMAIN bs |-> IF bs[i].is_defaulted THEN bs[i]
                         ELSE ExecuteAction(bs[i], strat[i])]

\* _phase_margin_and_constraints: the margin required of bank b, 0 for no call
MarginRequired(b, mom) ==
    IF b.is_defaulted \/ b.market_exposure <= 0 THEN 0
    ELSE LET variation_margin == (b.market_exposure * Abs(mom)) \div MOM
         IN IF variation_margin * 10 > b.cash THEN variation_margin ELSE 0

\* _phase_settlement_and_clearing with _force_liquidation, for one bank:
\* the amount liquidated (0 when the call is met)
Liquidated(b, mom) ==
    LET margin_required == MarginRequired(b, mom)
    IN IF margin_required > 0 /\ b.cash < margin_required
       THEN Min(Min(b.investments, (margin_required * 12) \div 10), b.investments)
       ELSE 0

PhaseSettlement(bs, mom) ==
    [i \in DOMAIN bs |->
        LET liquidated == Liquidated(bs[i], mom)
        IN IF liquidated > 0
           THEN [bs[i] EXCEPT !.investments = @ - liquidated,
                              !.cash = @ + (liquidated * 85) \div 100,
                              !.market_exposure = @ - liquidated]
           ELSE bs[i]]

RECURSIVE SumLiquidated(_, _, _)
SumLiquidated(bs, mom, i) ==
    IF i = 0 THEN 0
    ELSE SumLiquidated(bs, mom, i - 1)
         + (IF Liquidated(bs[i], mom) > 0 THEN Liquidated(bs[i], mom) \div 100 ELSE 0)

\* StatefulSimulation._propagate_cascade: every connection whose lender is
\* the defaulted bank drains its (non-defaulted) borrower's cash
RECURSIVE PropagateCascade(_, _, _, _)
PropagateCascade(bs, conns, defaulted, k) ==
    IF k > Len(conns) THEN [banks |-> bs, ev |-> <<>>]
    ELSE LET c == conns[k]
             hit == c.exposure \div 2
             tb == bs[c.to_bank]
             cash2 == tb.cash - Min(hit, (tb.cash * 3) \div 10)
             applies == c.from_bank = defaulted /\ ~tb.is_defaulted
             bs2 == IF applies
                    THEN [bs EXCEPT ![c.to_bank] =
                             [@ EXCEPT !.cash = cash2,
                                       !.liquidity_ratio = LiquidityRatio(cash2, tb.borrowed)]]
                    ELSE bs
             rest == PropagateCascade(bs2, conns, defaulted, k + 1)
         IN [banks |-> rest.banks,
             ev |-> (IF applies THEN <<"cascade">> ELSE <<>>) \o rest.ev]

\* StatefulSimulation._phase_contagion_check: banks in dict order
RECURSIVE PhaseContagion(_, _, _, _)
PhaseContagion(bs, conns, step, i) ==
    IF i > Len(bs) THEN [banks |-> bs, ev |-> <<>>, defaults |-> 0]
    ELSE IF ~bs[i].is_defaulted
            /\ (bs[i].equity <= 0 \/ bs[i].liquidity_ratio < 50)
         THEN LET marked == [bs EXCEPT ![i] = [@ EXCEPT !.is_defaulted = TRUE,
                                                       !.default_step = step]]
                  casc == PropagateCascade(marked, conns, i, 1)
                  rest == PhaseContagion(casc.banks, conns, step, i + 1)
              IN [banks |-> rest.banks,
                  ev |-> <<"default">> \o casc.ev \o rest.ev,
                  defaults |-> 1 + rest.defaults]
         ELSE PhaseContagion(bs, conns, step, i + 1)

RECURSIVE ActionEvents(_, _)
ActionEvents(bs, i) ==
    IF i > Len(bs) THEN <<>>
    ELSE (IF bs[i].is_defaulted THEN <<>> ELSE <<"action_execution">>)
         \o ActionEvents(bs, i + 1)

RECURSIVE MarginEvents(_, _, _)
MarginEvents(bs, mom, i) ==
    IF i > Len(bs) THEN <<>>
    ELSE (IF MarginRequired(bs[i], mom) > 0 THEN <<"margin_call">> ELSE <<>>)
         \o MarginEvents(bs, mom, i + 1)

RECURSIVE LiquidationEvents(_, _, _)
LiquidationEvents(bs, mom, i) ==
    IF i > Len(bs) THEN <<>>
    ELSE (IF Liquidated(bs[i], mom) > 0 THEN <<"forced_liquidation">> ELSE <<>>)
         \o LiquidationEvents(bs, mom, i + 1)

NumDefaulted(bs) == Cardinality({i \in DOMAIN bs : bs[i].is_defaulted})

\* StatefulSimulation.execute_step
ExecuteStep ==
    IF state # "RUNNING"
    THEN /\ result' = Err
         /\ UNCHANGED <<state, current_step, total_steps, sbanks, connections,
                        events, total_defaults, momentum, ms_momentum, injections>>
    ELSE IF current_step >= total_steps
    THEN /\ state' = "COMPLETED"
         /\ result' = [Ok EXCEPT !.status = "completed"]
         /\ UNCHANGED <<current_step, total_steps, sbanks, connections, events,
                        total_defaults, momentum, ms_momentum, injections>>
    ELSE \E strat \in [DOMAIN sbanks -> ActionTypes] :
         /\ \A i \in DOMAIN sbanks :
                strat[i] \in (IF sbanks[i].is_defaulted THEN {"HOARD_CASH"}
                              ELSE SelectBankAction(sbanks[i]))
         /\ LET acted == PhaseActions(sbanks, strat)
                settled == PhaseSettlement(acted, momentum)
                ms2 == ms_momentum - SumLiquidated(acted, momentum, Len(acted))
                cont == PhaseContagion(settled, connections, current_step + 1, 1)
            IN /\ current_step' = current_step + 1
               /\ sbanks' = cont.banks
               /\ ms_momentum' = ms2
               /\ momentum' = ms2
               /\ total_defaults' = total_defaults + cont.defaults
               /\ result' = [Ok EXCEPT
                     !.status = "step",
                     !.step_events = <<"step_start">>
                         \o ActionEvents(sbanks, 1)
                         \o MarginEvents(acted, momentum, 1)
                         \o LiquidationEvents(acted, momentum, 1)
                         \o cont.ev
                         \o <<"step_end">>]
               /\ UNCHANGED <<state, total_steps, connections, events, injections>>

SessionNext ==
    \/ /\ \E steps \in StepsInputs : Initialize(steps)
       /\ UNCHANGED gvars
    \/ /\ Start
       /\ UNCHANGED gvars
    \/ /\ Pause
       /\ UNCHANGED gvars
    \/ /\ Resume
       /\ UNCHANGED gvars
    \/ /\ Stop
       /\ UNCHANGED gvars
    \/ /\ ExecuteStep
       /\ UNCHANGED gvars
    \/ /\ Len(sbanks) < MaxBanks
       /\ \E c \in CapitalInputs, tl \in LeverageInputs, rf \in RiskInputs,
             o \in BankObjectives : CreateBank(c, tl, rf, o)
       /\ UNCHANGED gvars
    \/ /\ \E i \in 1..MaxBanks, u \in UpdateInputs : UpdateBank(i, u[1], u[2])
       /\ UNCHANGED gvars
    \/ /\ Len(connections) < MaxConnections
       /\ \E f \in 1..MaxBanks, g \in 1..MaxBanks, e \in ExposureInputs :
             CreateConnection(f, g, e)
       /\ UNCHANGED gvars
    \/ /\ \E i \in 1..MaxBanks, a \in InjectionInputs : AddCapitalInjection(i, a)
       /\ UNCHANGED gvars


----------------------------------------------------------------------------
\* The streaming kernel: banks, balance sheets, markets, ledger

NumSteps == 2          \* num_steps of a stream's configuration
MaxCommands == 3       \* control requests made to one stream
MaxPolls == 1          \* empty polls of the pause loop in one stream

NumBanks == 2                   \* num_banks of the configurations modelled
BankIds == 0..(NumBanks - 1)
NoBank == -1                    \* Python None where a bank id is expected
NoMarket == "NONE"              \* Python None where a market id is expected

BankActions == {"INCREASE_LENDING", "DECREASE_LENDING", "INVEST_MARKET",
                "DIVEST_MARKET", "HOARD_CASH"}

\* Draws of random.uniform / random.choice, inside the source's ranges.
BasePctDraws == {200}            \* uniform(0.05, 0.20), per mille
SentimentDraws == {1000}        \* uniform(0.7, 1.3), per mille
JitterDraws == {1000}           \* uniform(0.8, 1.2), per mille
HoardPctDraws == {30}           \* uniform(0.01, 0.05), per mille
ShockDraws == {-30, 30}         \* uniform(-volatility, volatility), per mille
NetworkAmountDraws == {10 * UNIT}   \* uniform(5, 15)
UnitDraws == {0, 1000}          \* where in its range a uniform draw falls, per mille

\* The BankConfig lists a stream is started with: none, a pair of
\* well-capitalised banks, and two pairs in which a thinly capitalised bank
\* faces a lender that the borrower's default does or does not bring down
NoBankConfigs == <<>>
SoundBankConfigs ==
    << [initial_capital |-> 100 * UNIT, target_leverage |-> 1 * PM, risk_factor |-> 200],
       [initial_capital |-> 100 * UNIT, target_leverage |-> 3 * PM, risk_factor |-> 700] >>
FragileBankConfigs ==
    << [initial_capital |-> 40, target_leverage |-> 10 * PM, risk_factor |-> 500],
       [initial_capital |-> 5 * UNIT, target_leverage |-> 4 * PM, risk_factor |-> 500] >>
FragileBorrowerConfigs ==
    << [initial_capital |-> 40, target_leverage |-> 10 * PM, risk_factor |-> 500],
       [initial_capital |-> 10 * UNIT, target_leverage |-> 2 * PM, risk_factor |-> 500] >>
BankConfigInputs ==
    {NoBankConfigs, SoundBankConfigs, FragileBankConfigs, FragileBorrowerConfigs}
DensityInputs == {1000}
MarketConfigInputs == { << [market_id |-> "EQUITY", initial_price |-> 1 * UNIT] >> }
CapitalAmounts == {20 * UNIT}   \* amount of an add_capital command

\* BalanceSheet.total_assets / equity / is_defaulted
TotalAssets(b) == b.cash + b.investments + b.loans_given
Equity(b) == TotalAssets(b) - b.borrowed
SheetDefaulted(b) == Equity(b) < 0

\* BalanceSheet.compute_ratios, per mille; the 0.01 floor is one unit
Leverage(b) == (TotalAssets(b) * PM) \div Max(Equity(b), 1)
LiquidityOf(b) == (b.cash * PM) \div Max(TotalAssets(b), 1)
MarketExposure(b) == (b.investments * PM) \div Max(TotalAssets(b), 1)

\* Sum of the values of a function with a finite domain
RECURSIVE SumOver(_, _)
SumOver(f, S) ==
    IF S = {} THEN 0
    ELSE LET x == CHOOSE y \in S : TRUE IN f[x] + SumOver(f, S \ {x})
SumFn(f) == SumOver(f, DOMAIN f)

\* Market.get_return, per mille
GetReturn(m) == ((m.price - m.initial_price) * PM) \div m.initial_price

\* an apply_flow without the floor on the price
ApplyFlowNoFloor(m, net_flow, shock) ==
    LET supply_demand_impact == (net_flow * 2) \div PM
        random_shock == (shock * m.price) \div PM
        n == Len(m.price_history)
        mom == IF n >= 3
               THEN (m.price_history[n] - m.price_history[n - 2]) \div 10
               ELSE 0
        price == m.price + supply_demand_impact + random_shock + mom
    IN [m EXCEPT !.price = price,
                 !.total_invested = @ + net_flow,
                 !.flow_history = Append(@, net_flow),
                 !.price_history = Append(@, price)]

\* Market.apply_flow with the volatility draw shock (per mille)
ApplyFlow(m, net_flow, shock) ==
    LET supply_demand_impact == (net_flow * 2) \div PM
        random_shock == (shock * m.price) \div PM
        n == Len(m.price_history)
        mom == IF n >= 3
               THEN (m.price_history[n] - m.price_history[n - 2]) \div 10
               ELSE 0
        price == Max(1 * UNIT, m.price + supply_demand_impact + random_shock + mom)
    IN [m EXCEPT !.price = price,
                 !.total_invested = @ + net_flow,
                 !.flow_history = Append(@, net_flow),
                 !.price_history = Append(@, price)]

\* create_markets_from_config / Market.__post_init__
NewMarket(mc) ==
    [initial_price |-> mc.initial_price, price |-> mc.initial_price,
     total_invested |-> 0, price_history |-> <<mc.initial_price>>,
     flow_history |-> <<>>]

DefaultMarketConfigs ==
    << [market_id |-> "BANK_INDEX", initial_price |-> 100 * UNIT],
       [market_id |-> "FIN_SERVICES", initial_price |-> 100 * UNIT] >>

CreateMarketsFromConfig(mcs) ==
    LET ids == {mcs[k].market_id : k \in DOMAIN mcs}
    IN [mid \in ids |->
          NewMarket(mcs[CHOOSE k \in DOMAIN mcs :
                          /\ mcs[k].market_id = mid
                          /\ \A j \in DOMAIN mcs : mcs[j].market_id = mid => j <= k])]

\* A Bank as the dataclass builds it around a BalanceSheet
EmptyDict == [x \in {} |-> 0]

NewBank(cash, investments, loans_given, borrowed) ==
    [cash |-> cash, investments |-> investments, loans_given |-> loans_given,
     borrowed |-> borrowed,
     investment_positions |-> EmptyDict,
     loan_positions |-> EmptyDict,
     is_defaulted |-> FALSE,
     risk_appetite |-> 500,
     last_action |-> "NONE",
     action_history |-> 0]

\* create_banks, the branch with a BankConfig for bank i
ConfiguredBank(cf) ==
    LET equity == cf.initial_capital
        target_leverage == Max(1 * PM, cf.target_leverage)
        total_assets == (equity * target_leverage) \div PM
    IN NewBank((total_assets * 5) \div 10, (total_assets * 3) \div 10,
               (total_assets * 2) \div 10, total_assets - equity)

\* create_banks, the randomised branch: the draws of bank type i % 4
RandomBankDraws(i) ==
    IF i % 4 = 0 THEN {[cash |-> 150 * UNIT, borrowed |-> 50 * UNIT, investments |-> 10 * UNIT]}
    ELSE IF i % 4 = 1 THEN {[cash |-> 80 * UNIT, borrowed |-> 70 * UNIT, investments |-> 30 * UNIT]}
    ELSE IF i % 4 = 2 THEN {[cash |-> 30 * UNIT, borrowed |-> 40 * UNIT, investments |-> 15 * UNIT]}
    ELSE {[cash |-> 60 * UNIT, borrowed |-> 120 * UNIT, investments |-> 50 * UNIT]}

\* create_banks: the bank lists it can return for the configuration
CreateBanks(num_banks, bank_configs) ==
    { bs \in [0..(num_banks - 1) ->
                UNION { {ConfiguredBank(bank_configs[k]) : k \in DOMAIN bank_configs},
                        UNION { {NewBank(d.cash, d.investments, 0, d.borrowed) :
                                   d \in RandomBankDraws(i)} : i \in 0..(num_banks - 1)} }] :
        \A i \in 0..(num_banks - 1) :
            IF i + 1 \in DOMAIN bank_configs
            THEN bs[i] = ConfiguredBank(bank_configs[i + 1])
            ELSE \E d \in RandomBankDraws(i) :
                    bs[i] = NewBank(d.cash, d.investments, 0, d.borrowed) }

\* dict access with a default: d.get(k, 0)
Get(d, k) == IF k \in DOMAIN d THEN d[k] ELSE 0
\* d[k] = v on a dict
Put(d, k, v) == [x \in DOMAIN d \cup {k} |-> IF x = k THEN v ELSE d[x]]
\* del d[k]
Del(d, k) == [x \in DOMAIN d \ {k} |-> d[x]]

\* a network loan that is added to loans_given and to no loan position
NetworkLoanNoPosition(bs, lender, borrower, amount) ==
    IF bs[lender].cash >= amount
    THEN [bs EXCEPT
            ![lender] = [@ EXCEPT !.cash = @ - amount,
                                  !.loans_given = @ + amount],
            ![borrower] = [@ EXCEPT !.cash = @ + amount,
                                    !.borrowed = @ + amount]]
    ELSE bs

\* One draw of _create_interbank_network: lender, borrower, amount
NetworkLoan(bs, lender, borrower, amount) ==
    IF bs[lender].cash >= amount
    THEN [bs EXCEPT
            ![lender] = [@ EXCEPT !.cash = @ - amount,
                                  !.loans_given = @ + amount,
                                  !.loan_positions =
                                      Put(@, borrower, Get(@, borrower) + amount)],
            ![borrower] = [@ EXCEPT !.cash = @ + amount,
                                    !.borrowed = @ + amount]]
    ELSE bs

\* _create_interbank_network: the networks num_connections draws can give
RECURSIVE CreateInterbankNetwork(_, _)
CreateInterbankNetwork(bs, num_connections) ==
    IF num_connections = 0 \/ Cardinality(DOMAIN bs) < 2 THEN {bs}
    ELSE UNION { CreateInterbankNetwork(NetworkLoan(bs, l, b, a), num_connections - 1) :
                   <<l, b, a>> \in { x \in (DOMAIN bs) \X (DOMAIN bs) \X NetworkAmountDraws :
                                        x[1] # x[2] } }

NumConnections(num_banks, density) ==
    (num_banks * (num_banks - 1) * density) \div (2 * PM)

\* _count_neighbor_defaults
CountNeighborDefaults(b, bs) ==
    Cardinality({cp \in DOMAIN b.loan_positions : cp \in DOMAIN bs /\ bs[cp].is_defaulted})

\* Bank.observe_local_state with the fields the generator adds
LocalStress(neighbor_defaults) == Min(PM, (neighbor_defaults * PM) \div 5)

BestMarketReturn(b, mk) ==
    LET held == {mid \in DOMAIN b.investment_positions :
                    b.investment_positions[mid] > 0 /\ mid \in DOMAIN mk
                    /\ GetReturn(mk[mid]) > 0}
    IN IF held = {} THEN 0
       ELSE CHOOSE r \in {GetReturn(mk[mid]) : mid \in held} :
               \A mid \in held : GetReturn(mk[mid]) <= r

Observation(b, bs, mk) ==
    [cash |-> b.cash,
     equity |-> Equity(b),
     leverage |-> Leverage(b),
     liquidity_ratio |-> LiquidityOf(b),
     market_exposure |-> MarketExposure(b),
     neighbor_defaults |-> CountNeighborDefaults(b, bs),
     local_stress |-> LocalStress(CountNeighborDefaults(b, bs)),
     risk_appetite |-> b.risk_appetite,
     has_markets |-> DOMAIN mk # {},
     best_market_return |-> BestMarketReturn(b, mk),
     total_invested |-> b.investments]

----------------------------------------------------------------------------
\* The policy: select_action with the game-theoretic engine

\* FinancialGameTheory.estimate_market_state (network_default_rate is 0.0)
Distressed(obs) ==
    5 * obs.local_stress + 2 * (PM - obs.liquidity_ratio) > 4 * PM

\* FinancialGameTheory.estimate_others_strategy, per mille
EstimateOthersStrategy(obs) ==
    LET base_lend_prob == IF Distressed(obs) THEN 300 ELSE 700
        lend_prob == (base_lend_prob * (2 * PM - obs.local_stress)) \div (2 * PM)
    IN Max(100, Min(900, lend_prob))

\* FinancialGameTheory.construct_payoff_matrix. Rates are in 1e-4; the four
\* payoffs carry the common positive factor equity_scale, which the
\* comparison of compute_best_response does not depend on.
ConstructPayoffMatrix(obs) ==
    LET d == Distressed(obs)
        lending_return == IF d THEN 350 ELSE 500
        base_risk == 200 + obs.local_stress
        default_risk == IF d THEN (base_risk * 5) \div 2 ELSE base_risk
        hoarding_cost == IF d THEN 50 ELSE 100
        coordination_bonus == 200
        low_liquidity == obs.liquidity_ratio < 200
        high_leverage == obs.leverage > 3 * PM
    IN [my_lend_other_lend |->
            10 * (lending_return + coordination_bonus - default_risk)
               * (IF low_liquidity THEN 5 ELSE 10) * (IF high_leverage THEN 6 ELSE 10),
        my_lend_other_hoard |->
            (7 * lending_return - 13 * default_risk)
               * (IF low_liquidity THEN 3 ELSE 10) * (IF high_leverage THEN 4 ELSE 10),
        my_hoard_other_lend |->
            (-5 * hoarding_cost) * (IF low_liquidity THEN 12 ELSE 10) * 10,
        my_hoard_other_hoard |->
            (-15 * hoarding_cost) * (IF low_liquidity THEN 11 ELSE 10) * 10]

\* NashEquilibriumSolver.compute_best_response
ComputeBestResponse(my_payoffs, other_action_prob) ==
    LET ev_lend == other_action_prob * my_payoffs.my_lend_other_lend
                   + (PM - other_action_prob) * my_payoffs.my_lend_other_hoard
        ev_hoard == other_action_prob * my_payoffs.my_hoard_other_lend
                    + (PM - other_action_prob) * my_payoffs.my_hoard_other_hoard
    IN IF ev_lend > ev_hoard THEN "LEND" ELSE "HOARD"

\* get_nash_equilibrium_action
GetNashEquilibriumAction(obs) ==
    ComputeBestResponse(ConstructPayoffMatrix(obs), EstimateOthersStrategy(obs))

\* MLPolicy._select_action_game_theoretic: the actions its random.random()
\* draws can return. Every probability it compares a draw with lies strictly
\* between 0 and 1 for every priority, so each guarded return is possible
\* and so is falling through it.
SelectAction(obs) ==
    LET profit_taking ==
            IF obs.total_invested > 5 * UNIT /\ obs.best_market_return > 50
            THEN {"DIVEST_MARKET"} ELSE {}
        lend ==
            IF obs.cash < 10 * UNIT \/ obs.equity < 5 * UNIT THEN {"HOARD_CASH"}
            ELSE IF obs.has_markets /\ obs.cash > 15 * UNIT
                 THEN {"INVEST_MARKET", "INCREASE_LENDING"}
            ELSE IF obs.cash > 15 * UNIT THEN {"INCREASE_LENDING"}
            ELSE {"HOARD_CASH"}
        hoard ==
            (IF obs.has_markets /\ obs.cash > 40 * UNIT
                /\ obs.liquidity_ratio > 500 /\ obs.risk_appetite > 600
             THEN {"INVEST_MARKET"} ELSE {})
            \cup (IF obs.market_exposure > 100 THEN {"DIVEST_MARKET"} ELSE {})
            \cup (IF obs.liquidity_ratio < 250 THEN {"DECREASE_LENDING"}
                  ELSE {"HOARD_CASH"})
    IN profit_taking
       \cup (IF GetNashEquilibriumAction(obs) = "LEND" THEN lend ELSE hoard)

\* _select_counterparty: the ids random.choice can return, or None
SelectCounterparty(i, bs, action) ==
    IF action = "INCREASE_LENDING"
    THEN LET candidates == {j \in DOMAIN bs : j # i /\ ~bs[j].is_defaulted}
         IN IF candidates # {} THEN candidates ELSE {NoBank}
    ELSE IF action = "DECREASE_LENDING"
    THEN IF DOMAIN bs[i].loan_positions # {}
         THEN DOMAIN bs[i].loan_positions ELSE {NoBank}
    ELSE {NoBank}

\* The market of the action. For a divestment it is the market of the
\* bank's largest position (the first such in the dict's order, so any of
\* the largest ones), else a random market; None without markets.
SelectMarket(b, mk, action) ==
    LET pos == b.investment_positions
        held == {mid \in DOMAIN pos : pos[mid] > 0}
        best == {mid \in held : \A o \in held : pos[o] <= pos[mid]}
    IN IF DOMAIN mk = {} THEN {NoMarket}
       ELSE IF action = "DIVEST_MARKET" /\ best # {} THEN best
       ELSE DOMAIN mk

\* the fix-ups without the replacement of a lending action (lines 236-249)
FixUpsKeepLending(i, bs, has_markets, action, counterparty_id) ==
    LET other_banks == {j \in DOMAIN bs : j # i /\ ~bs[j].is_defaulted}
        a1 == action
        no_market == a1 \in {"INVEST_MARKET", "DIVEST_MARKET"} /\ ~has_markets
    IN IF no_market
       THEN IF other_banks # {} /\ bs[i].cash > 15 * UNIT
            THEN {<<"INCREASE_LENDING", c>> :
                     c \in SelectCounterparty(i, bs, "INCREASE_LENDING")}
            ELSE {<<"HOARD_CASH", counterparty_id>>}
       ELSE {<<a1, counterparty_id>>}

\* The two fix-ups between the policy and the amount: the <<action,
\* counterparty>> pairs they can leave
FixUps(i, bs, has_markets, action, counterparty_id) ==
    LET other_banks == {j \in DOMAIN bs : j # i /\ ~bs[j].is_defaulted}
        solo == /\ action \in {"INCREASE_LENDING", "DECREASE_LENDING"}
                /\ counterparty_id = NoBank
                /\ other_banks = {}
        a1 == IF solo
              THEN IF has_markets /\ bs[i].cash > 30 * UNIT
                   THEN "INVEST_MARKET" ELSE "HOARD_CASH"
              ELSE action
        no_market == a1 \in {"INVEST_MARKET", "DIVEST_MARKET"} /\ ~has_markets
    IN IF no_market
       THEN IF other_banks # {} /\ bs[i].cash > 15 * UNIT
            THEN {<<"INCREASE_LENDING", c>> :
                     c \in SelectCounterparty(i, bs, "INCREASE_LENDING")}
            ELSE {<<"HOARD_CASH", counterparty_id>>}
       ELSE {<<a1, counterparty_id>>}

\* risk_multiplier of bank_idx, per mille
RiskMultiplier(bank_configs, idx) ==
    IF idx + 1 \in DOMAIN bank_configs
    THEN 500 + (bank_configs[idx + 1].risk_factor * 1500) \div PM
    ELSE PM

\* The dynamic transaction amount of lines 262-312
DynamicAmount(action, obs, risk_multiplier, base_pct, market_sentiment, hoard_pct, jitter) ==
    LET cash == obs.cash
        caution_factor == Max(300, PM - obs.neighbor_defaults * 150)
        stress_multiplier == IF obs.liquidity_ratio < 250 THEN 2 ELSE 1
        urgency == IF obs.leverage > 3 * PM THEN 2 ELSE 1
        base == (cash * base_pct) \div PM
        raw == IF action = "INVEST_MARKET"
               THEN (((((base * risk_multiplier) \div PM) * market_sentiment) \div PM) * 15) \div 10
               ELSE IF action = "DIVEST_MARKET"
               THEN (base * stress_multiplier * 12) \div 10
               ELSE IF action = "INCREASE_LENDING"
               THEN (((((base * risk_multiplier) \div PM) * caution_factor) \div PM) * 13) \div 10
               ELSE IF action = "DECREASE_LENDING"
               THEN (base * urgency * 8) \div 10
               ELSE (cash * hoard_pct) \div PM
        jittered == (raw * jitter) \div PM
        clamped == Max(3 * UNIT, Min(80 * UNIT, jittered))
    IN Min(clamped, (obs.equity * 4) \div 10)

\* A ledger entry as log_transaction builds it
Tx(time_step, initiator_id, counterparty_id, counterparty_name, tx_type, amount) ==
    [time_step |-> time_step, initiator_id |-> initiator_id,
     counterparty_id |-> counterparty_id, counterparty_name |-> counterparty_name,
     transaction_type |-> tx_type, amount |-> amount]

\* execute_action without the guard of line 89
ExecuteActionUnguarded(b, i, action, time_step, counterparty_id, market_id, requested) ==
    LET amount == Max(0, Min(requested, b.cash \div 2))
        done == [b EXCEPT !.last_action = action, !.action_history = @ + 1]
        current_loan == Get(b.loan_positions, counterparty_id)
        reduce_amount == Min(amount, current_loan)
        current_position == Get(b.investment_positions, market_id)
        divest_amount == Min(amount, current_position)
    IN IF action = "INCREASE_LENDING" /\ counterparty_id # NoBank /\ amount > 0
       THEN [bank |-> [done EXCEPT !.cash = @ - amount,
                                   !.loans_given = @ + amount,
                                   !.loan_positions =
                                       Put(@, counterparty_id, current_loan + amount)],
             txs |-> <<Tx(time_step, i, counterparty_id, "BANK", "LOAN", amount)>>]
       ELSE IF action = "DECREASE_LENDING" /\ counterparty_id # NoBank /\ reduce_amount > 0
       THEN [bank |-> [done EXCEPT !.cash = @ + reduce_amount,
                                   !.loans_given = @ - reduce_amount,
                                   !.loan_positions =
                                       Put(@, counterparty_id, current_loan - reduce_amount)],
             txs |-> <<Tx(time_step, i, counterparty_id, "BANK", "REPAY", reduce_amount)>>]
       ELSE IF action = "INVEST_MARKET" /\ amount > 0
       THEN [bank |-> [done EXCEPT !.cash = @ - amount,
                                   !.investments = @ + amount,
                                   !.investment_positions =
                                       Put(@, market_id, current_position + amount)],
             txs |-> <<Tx(time_step, i, NoBank, market_id, "INVEST", amount)>>]
       ELSE IF action = "DIVEST_MARKET" /\ divest_amount > 0
       THEN [bank |-> [done EXCEPT !.cash = @ + divest_amount,
                                   !.investments = @ - divest_amount,
                                   !.investment_positions =
                                       Put(@, market_id, current_position - divest_amount)],
             txs |-> <<Tx(time_step, i, NoBank, market_id, "DIVEST", divest_amount)>>]
       ELSE IF action = "HOARD_CASH"
       THEN [bank |-> done, txs |-> <<Tx(time_step, i, NoBank, "SELF", "REPAY", 0)>>]
       ELSE [bank |-> done, txs |-> <<>>]

\* Bank.execute_action: the bank afterwards and the transactions it logged
BankExecuteAction(b, i, action, time_step, counterparty_id, market_id, requested) ==
    LET amount == Max(0, Min(requested, b.cash \div 2))
        done == [b EXCEPT !.last_action = action, !.action_history = @ + 1]
        current_loan == Get(b.loan_positions, counterparty_id)
        reduce_amount == Min(amount, current_loan)
        current_position == Get(b.investment_positions, market_id)
        divest_amount == Min(amount, current_position)
    IN IF b.is_defaulted THEN [bank |-> b, txs |-> <<>>]
       ELSE IF action = "INCREASE_LENDING" /\ counterparty_id # NoBank /\ amount > 0
       THEN [bank |-> [done EXCEPT !.cash = @ - amount,
                                   !.loans_given = @ + amount,
                                   !.loan_positions =
                                       Put(@, counterparty_id, current_loan + amount)],
             txs |-> <<Tx(time_step, i, counterparty_id, "BANK", "LOAN", amount)>>]
       ELSE IF action = "DECREASE_LENDING" /\ counterparty_id # NoBank /\ reduce_amount > 0
       THEN [bank |-> [done EXCEPT !.cash = @ + reduce_amount,
                                   !.loans_given = @ - reduce_amount,
                                   !.loan_positions =
                                       Put(@, counterparty_id, current_loan - reduce_amount)],
             txs |-> <<Tx(time_step, i, counterparty_id, "BANK", "REPAY", reduce_amount)>>]
       ELSE IF action = "INVEST_MARKET" /\ amount > 0
       THEN [bank |-> [done EXCEPT !.cash = @ - amount,
                                   !.investments = @ + amount,
                                   !.investment_positions =
                                       Put(@, market_id, current_position + amount)],
             txs |-> <<Tx(time_step, i, NoBank, market_id, "INVEST", amount)>>]
       ELSE IF action = "DIVEST_MARKET" /\ divest_amount > 0
       THEN [bank |-> [done EXCEPT !.cash = @ + divest_amount,
                                   !.investments = @ - divest_amount,
                                   !.investment_positions =
                                       Put(@, market_id, current_position - divest_amount)],
             txs |-> <<Tx(time_step, i, NoBank, market_id, "DIVEST", divest_amount)>>]
       ELSE IF action = "HOARD_CASH"
       THEN [bank |-> done, txs |-> <<Tx(time_step, i, NoBank, "SELF", "REPAY", 0)>>]
       ELSE [bank |-> done, txs |-> <<>>]

\* Bank.apply_loss
ApplyLoss(b, amount) == [b EXCEPT !.cash = @ - Min(amount, b.cash)]

\* An event of the stream: its type, its step field and what it is about
ActionEvent(type, step, bank_id, action, amount) ==
    [type |-> type, step |-> step, bank_id |-> bank_id, to_bank |-> NoBank,
     action |-> action, amount |-> amount]

Event(type, step, bank_id, amount) == ActionEvent(type, step, bank_id, "NONE", amount)

\* random.uniform(lo, hi) for the draw u of UnitDraws
Uniform(lo, hi, u) == lo + ((hi - lo) * u) \div PM

----------------------------------------------------------------------------
\* interactive_simulation_generator and the /control endpoint

NoStep == -1        \* an event without a step field

NoConfig ==
    [num_banks |-> 0, num_steps |-> 0, connection_density |-> 0,
     bank_configs |-> <<>>, market_configs |-> <<>>]

ConfigInputs ==
    [num_banks : {NumBanks}, num_steps : {NumSteps},
     connection_density : DensityInputs,
     bank_configs : BankConfigInputs, market_configs : MarketConfigInputs]

ControlInputs ==
    {[command |-> "resume", bank_id |-> NoBank, amount |-> 0],
     [command |-> "stop", bank_id |-> NoBank, amount |-> 0]}
    \cup {[command |-> "delete_bank", bank_id |-> b, amount |-> 0] : b \in {0}}
    \cup {[command |-> "add_capital", bank_id |-> b, amount |-> a] :
             b \in {0}, a \in CapitalAmounts}

\* bank_id of a trigger_default request
TriggerInputs == {0, 1}

StreamInit ==
    /\ pc = "idle"
    /\ config = NoConfig
    /\ t = -1
    /\ bank_idx = 0
    /\ banks = EmptyDict
    /\ markets = EmptyDict
    /\ step_market_flows = EmptyDict
    /\ defaults_this_step = <<>>
    /\ cascade_depth = 0
    /\ is_running = FALSE
    /\ is_paused = FALSE
    /\ control_queue = <<>>
    /\ ledger = <<>>
    /\ stream = <<>>
    /\ ncommands = 0
    /\ npolls = 0

\* The market configurations the generator builds its markets from
EffectiveMarketConfigs(cfg) ==
    IF Len(cfg.market_configs) > 0 THEN cfg.market_configs ELSE DefaultMarketConfigs

\* start_interactive_simulation followed by the generator's prologue, up to
\* the init event
StartStream(cfg) ==
    /\ pc = "idle"
    /\ \E bs \in CreateBanks(cfg.num_banks, cfg.bank_configs) :
         \E net \in CreateInterbankNetwork(
                       bs, NumConnections(cfg.num_banks, cfg.connection_density)) :
            banks' = net
    /\ config' = cfg
    /\ control_queue' = <<>>
    /\ ledger' = <<>>
    /\ markets' = CreateMarketsFromConfig(EffectiveMarketConfigs(cfg))
    /\ is_running' = TRUE
    /\ is_paused' = FALSE
    /\ stream' = Append(stream, Event("init", NoStep, NoBank, 0))
    /\ t' = -1
    /\ pc' = "for"
    /\ UNCHANGED <<bank_idx, step_market_flows, defaults_this_step,
                   cascade_depth, ncommands, npolls>>

\* for t in range(config.num_steps): the next iteration, or the loop's end
NextStep ==
    /\ pc = "for"
    /\ IF t + 1 < config.num_steps
       THEN t' = t + 1 /\ pc' = "while"
       ELSE t' = t /\ pc' = "cleanup"
    /\ UNCHANGED <<config, bank_idx, banks, markets, step_market_flows,
                   defaults_this_step, cascade_depth, is_running, is_paused,
                   control_queue, ledger, stream, ncommands, npolls>>

\* the head of an iteration that yields no step_start
PauseCheckSilent ==
    /\ pc = "while"
    /\ IF is_paused
       THEN /\ stream' = Append(stream, Event("paused", t, NoBank, 0))
            /\ pc' = "wait"
            /\ UNCHANGED <<defaults_this_step, step_market_flows, bank_idx>>
       ELSE IF ~is_running
       THEN /\ pc' = "cleanup"
            /\ UNCHANGED <<stream, defaults_this_step, step_market_flows, bank_idx>>
       ELSE /\ defaults_this_step' = <<>>
            /\ stream' = stream
            /\ step_market_flows' = [mid \in DOMAIN markets |-> 0]
            /\ bank_idx' = 0
            /\ pc' = "banks"
    /\ UNCHANGED <<config, t, banks, markets, cascade_depth, is_running,
                   is_paused, control_queue, ledger, ncommands, npolls>>

\* the head of an iteration that does not look at is_paused
PauseCheckSkipsPause ==
    /\ pc = "while"
    /\ IF ~is_running
       THEN /\ pc' = "cleanup"
            /\ UNCHANGED <<stream, defaults_this_step, step_market_flows, bank_idx>>
       ELSE /\ defaults_this_step' = <<>>
            /\ stream' = Append(stream, Event("step_start", t, NoBank, 0))
            /\ step_market_flows' = [mid \in DOMAIN markets |-> 0]
            /\ bank_idx' = 0
            /\ pc' = "banks"
    /\ UNCHANGED <<config, t, banks, markets, cascade_depth, is_running,
                   is_paused, control_queue, ledger, ncommands, npolls>>

\* The head of an iteration: the pause loop's test and, past it, the
\* is_running test, the reset of the step's state and the step_start event
PauseCheck ==
    /\ pc = "while"
    /\ IF is_paused
       THEN /\ stream' = Append(stream, Event("paused", t, NoBank, 0))
            /\ pc' = "wait"
            /\ UNCHANGED <<defaults_this_step, step_market_flows, bank_idx>>
       ELSE IF ~is_running
       THEN /\ pc' = "cleanup"
            /\ UNCHANGED <<stream, defaults_this_step, step_market_flows, bank_idx>>
       ELSE /\ defaults_this_step' = <<>>
            /\ stream' = Append(stream, Event("step_start", t, NoBank, 0))
            /\ step_market_flows' = [mid \in DOMAIN markets |-> 0]
            /\ bank_idx' = 0
            /\ pc' = "banks"
    /\ UNCHANGED <<config, t, banks, markets, cascade_depth, is_running,
                   is_paused, control_queue, ledger, ncommands, npolls>>

\* a pause loop whose resume goes on to the next iteration of the step loop
PauseWaitResumeSkips ==
    /\ pc = "wait"
    /\ control_queue # <<>>
    /\ LET command == Head(control_queue)
           known == command.bank_id \in DOMAIN banks
       IN /\ control_queue' = Tail(control_queue)
          /\ IF command.command = "resume"
             THEN /\ is_paused' = FALSE
                  /\ stream' = Append(stream, Event("resumed", t, NoBank, 0))
                  /\ pc' = "for"
                  /\ UNCHANGED <<is_running, banks>>
             ELSE IF command.command = "stop"
             THEN /\ is_running' = FALSE
                  /\ stream' = Append(stream, Event("stopped", t, NoBank, 0))
                  /\ pc' = "returned"
                  /\ UNCHANGED <<is_paused, banks>>
             ELSE IF command.command = "delete_bank" /\ known
             THEN /\ banks' = [banks EXCEPT ![command.bank_id].is_defaulted = TRUE]
                  /\ stream' = Append(stream,
                                      Event("bank_deleted", NoStep, command.bank_id, 0))
                  /\ pc' = "while"
                  /\ UNCHANGED <<is_running, is_paused>>
             ELSE IF command.command = "add_capital" /\ known
             THEN /\ banks' = [banks EXCEPT ![command.bank_id].cash = @ + command.amount]
                  /\ stream' = Append(stream,
                                      Event("capital_added", NoStep, command.bank_id,
                                            command.amount))
                  /\ pc' = "while"
                  /\ UNCHANGED <<is_running, is_paused>>
             ELSE /\ pc' = "while"
                  /\ UNCHANGED <<is_running, is_paused, banks, stream>>
    /\ UNCHANGED <<config, t, bank_idx, markets, step_market_flows,
                   defaults_this_step, cascade_depth, ledger, ncommands, npolls>>

\* a pause loop whose add_capital also clears the bank's default flag
PauseWaitCapitalRevives ==
    /\ pc = "wait"
    /\ control_queue # <<>>
    /\ LET command == Head(control_queue)
           known == command.bank_id \in DOMAIN banks
       IN /\ control_queue' = Tail(control_queue)
          /\ IF command.command = "resume"
             THEN /\ is_paused' = FALSE
                  /\ stream' = Append(stream, Event("resumed", t, NoBank, 0))
                  /\ pc' = "while"
                  /\ UNCHANGED <<is_running, banks>>
             ELSE IF command.command = "stop"
             THEN /\ is_running' = FALSE
                  /\ stream' = Append(stream, Event("stopped", t, NoBank, 0))
                  /\ pc' = "returned"
                  /\ UNCHANGED <<is_paused, banks>>
             ELSE IF command.command = "delete_bank" /\ known
             THEN /\ banks' = [banks EXCEPT ![command.bank_id].is_defaulted = TRUE]
                  /\ stream' = Append(stream,
                                      Event("bank_deleted", NoStep, command.bank_id, 0))
                  /\ pc' = "while"
                  /\ UNCHANGED <<is_running, is_paused>>
             ELSE IF command.command = "add_capital" /\ known
             THEN /\ banks' = [banks EXCEPT ![command.bank_id] =
                                      [@ EXCEPT !.cash = @ + command.amount,
                                                !.is_defaulted = FALSE]]
                  /\ stream' = Append(stream,
                                      Event("capital_added", NoStep, command.bank_id,
                                            command.amount))
                  /\ pc' = "while"
                  /\ UNCHANGED <<is_running, is_paused>>
             ELSE /\ pc' = "while"
                  /\ UNCHANGED <<is_running, is_paused, banks, stream>>
    /\ UNCHANGED <<config, t, bank_idx, markets, step_market_flows,
                   defaults_this_step, cascade_depth, ledger, ncommands, npolls>>

\* The pause loop's body when the queue holds a command
PauseWait ==
    /\ pc = "wait"
    /\ control_queue # <<>>
    /\ LET command == Head(control_queue)
           known == command.bank_id \in DOMAIN banks
       IN /\ control_queue' = Tail(control_queue)
          /\ IF command.command = "resume"
             THEN /\ is_paused' = FALSE
                  /\ stream' = Append(stream, Event("resumed", t, NoBank, 0))
                  /\ pc' = "while"
                  /\ UNCHANGED <<is_running, banks>>
             ELSE IF command.command = "stop"
             THEN /\ is_running' = FALSE
                  /\ stream' = Append(stream, Event("stopped", t, NoBank, 0))
                  /\ pc' = "returned"
                  /\ UNCHANGED <<is_paused, banks>>
             ELSE IF command.command = "delete_bank" /\ known
             THEN /\ banks' = [banks EXCEPT ![command.bank_id].is_defaulted = TRUE]
                  /\ stream' = Append(stream,
                                      Event("bank_deleted", NoStep, command.bank_id, 0))
                  /\ pc' = "while"
                  /\ UNCHANGED <<is_running, is_paused>>
             ELSE IF command.command = "add_capital" /\ known
             THEN /\ banks' = [banks EXCEPT ![command.bank_id].cash = @ + command.amount]
                  /\ stream' = Append(stream,
                                      Event("capital_added", NoStep, command.bank_id,
                                            command.amount))
                  /\ pc' = "while"
                  /\ UNCHANGED <<is_running, is_paused>>
             ELSE /\ pc' = "while"
                  /\ UNCHANGED <<is_running, is_paused, banks, stream>>
    /\ UNCHANGED <<config, t, bank_idx, markets, step_market_flows,
                   defaults_this_step, cascade_depth, ledger, ncommands, npolls>>

\* The pause loop's body when wait_for times out on an empty queue
PauseTimeout ==
    /\ pc = "wait"
    /\ control_queue = <<>>
    /\ npolls < MaxPolls
    /\ npolls' = npolls + 1
    /\ pc' = "while"
    /\ UNCHANGED <<config, t, bank_idx, banks, markets, step_market_flows,
                   defaults_this_step, cascade_depth, is_running, is_paused,
                   control_queue, ledger, stream, ncommands>>

\* control_simulation with command "pause"
ControlPause ==
    /\ is_running
    /\ ncommands < MaxCommands
    /\ ncommands' = ncommands + 1
    /\ is_paused' = TRUE
    /\ UNCHANGED <<pc, config, t, bank_idx, banks, markets, step_market_flows,
                   defaults_this_step, cascade_depth, is_running,
                   control_queue, ledger, stream, npolls>>

\* control_simulation with resume, stop, delete_bank or add_capital
ControlEnqueue(command) ==
    /\ is_running
    /\ ncommands < MaxCommands
    /\ ncommands' = ncommands + 1
    /\ control_queue' = Append(control_queue, command)
    /\ UNCHANGED <<pc, config, t, bank_idx, banks, markets, step_market_flows,
                   defaults_this_step, cascade_depth, is_running, is_paused,
                   ledger, stream, npolls>>

\* a trigger_default that gets past line 822 and marks the bank (line 823)
TriggerDefaultMarks(bank_id) ==
    /\ is_running
    /\ ncommands < MaxCommands
    /\ ncommands' = ncommands + 1
    /\ banks' = IF bank_id # 0 /\ bank_id \in DOMAIN banks
                THEN [banks EXCEPT ![bank_id].is_defaulted = TRUE]
                ELSE banks
    /\ UNCHANGED <<pc, config, t, bank_idx, markets, step_market_flows,
                   defaults_this_step, cascade_depth, is_running, is_paused,
                   control_queue, ledger, stream, npolls>>

\* trigger_default. With no simulation running it answers 404. Otherwise
\* bank_id 0 is refused as missing (line 800), an unknown bank answers 404
\* and a defaulted one 400; for every other bank the assignment to the
\* read-only property balance_sheet.equity (line 822) raises AttributeError
\* before is_defaulted or defaults_this_step is touched, so no path of the
\* endpoint changes the simulation.
TriggerDefault(bank_id) ==
    /\ is_running
    /\ ncommands < MaxCommands
    /\ ncommands' = ncommands + 1
    /\ UNCHANGED <<pc, config, t, bank_idx, banks, markets, step_market_flows,
                   defaults_this_step, cascade_depth, is_running, is_paused,
                   control_queue, ledger, stream, npolls>>

\* The bank ids in the order of state.banks
BankOrder(bs) == [k \in 1..Cardinality(DOMAIN bs) |-> k - 1]

\* The market ids in the order the configuration inserted them
RECURSIVE Distinct(_)
Distinct(seq) ==
    IF seq = <<>> THEN <<>>
    ELSE LET init == Distinct(SubSeq(seq, 1, Len(seq) - 1))
             x == seq[Len(seq)]
         IN IF \E k \in DOMAIN init : init[k] = x THEN init ELSE Append(init, x)

MarketOrder(cfg) ==
    Distinct([k \in DOMAIN EffectiveMarketConfigs(cfg) |->
                 EffectiveMarketConfigs(cfg)[k].market_id])

\* One iteration of the per-bank loop (lines 173-393): observation, policy,
\* counterparty, market, fix-ups, amount, execute_action, flow tracking,
\* realised gain of a divestment, events
BankStep ==
    /\ pc = "banks"
    /\ bank_idx \in DOMAIN banks
    /\ LET i == bank_idx
           bank == banks[i]
           has_markets == DOMAIN markets # {}
           observation == Observation(bank, banks, markets)
       IN IF bank.is_defaulted
          THEN UNCHANGED <<banks, step_market_flows, ledger, stream>>
          ELSE \E ml_action \in SelectAction(observation),
                  base_pct \in BasePctDraws, market_sentiment \in SentimentDraws,
                  hoard_pct \in HoardPctDraws, jitter \in JitterDraws :
               \E cp0 \in SelectCounterparty(i, banks, ml_action),
                  market_id \in SelectMarket(bank, markets, ml_action) :
               \E fixed \in FixUps(i, banks, has_markets, ml_action, cp0) :
                 LET action == fixed[1]
                     counterparty_id == fixed[2]
                     amount == DynamicAmount(action, observation,
                                             RiskMultiplier(config.bank_configs, i),
                                             base_pct, market_sentiment, hoard_pct, jitter)
                     done == BankExecuteAction(bank, i, action, t, counterparty_id,
                                               market_id, amount)
                     tracked == market_id \in DOMAIN step_market_flows
                     divested == action = "DIVEST_MARKET" /\ market_id \in DOMAIN markets
                     market_gain == IF divested
                                    THEN (amount * GetReturn(markets[market_id])) \div PM
                                    ELSE 0
                     gain_events == IF divested /\ Abs(market_gain) > UNIT \div 2
                                    THEN <<Event("market_gain", t, i, market_gain)>>
                                    ELSE <<>>
                 IN /\ banks' = [banks EXCEPT ![i] =
                                    [done.bank EXCEPT !.cash = @ + market_gain]]
                    /\ ledger' = ledger \o done.txs
                    /\ step_market_flows' =
                          IF action = "INVEST_MARKET" /\ tracked
                          THEN [step_market_flows EXCEPT ![market_id] = @ + amount]
                          ELSE IF action = "DIVEST_MARKET" /\ tracked
                          THEN [step_market_flows EXCEPT ![market_id] = @ - amount]
                          ELSE step_market_flows
                    /\ stream' = (stream \o gain_events)
                                 \o <<[ActionEvent("transaction", t, i, action, amount)
                                          EXCEPT !.to_bank = counterparty_id]>>
    /\ bank_idx' = bank_idx + 1
    /\ pc' = IF bank_idx + 1 \in DOMAIN banks THEN "banks" ELSE "profit_taking"
    /\ UNCHANGED <<config, t, markets, defaults_this_step, cascade_depth,
                   is_running, is_paused, control_queue, ncommands, npolls>>

\* sell_fraction of the profit-taking pass for the draw u, per mille
SellFraction(mkt_return, position, risk_appetite, u) ==
    LET take == IF mkt_return > 300 THEN Uniform(500, 700, u)
                ELSE IF mkt_return > 200 THEN Uniform(400, 600, u)
                ELSE IF mkt_return > 100 THEN Uniform(300, 500, u)
                ELSE IF mkt_return > 50 /\ risk_appetite < 400 THEN Uniform(150, 300, u)
                ELSE 0
    IN IF mkt_return < -100 /\ position > 5 * UNIT
       THEN Max(take, Uniform(400, 700, u))
       ELSE take

\* The profit-taking pass over the positions mids of bank i; w holds the
\* banks, the step's flows and the events yielded so far
RECURSIVE ProfitTakeBank(_, _, _, _, _, _)
ProfitTakeBank(w, i, mids, mk, step, u) ==
    IF mids = <<>> THEN w
    ELSE LET mid == Head(mids)
             b == w.banks[i]
             position == Get(b.investment_positions, mid)
             skip == mid \notin DOMAIN b.investment_positions
                     \/ position < 2 * UNIT \/ mid \notin DOMAIN mk
             mkt_return == GetReturn(mk[mid])
             sell_fraction == SellFraction(mkt_return, position, b.risk_appetite, u)
             sell_amount == Max(2 * UNIT, Min((position * sell_fraction) \div PM, position))
             realized_gain == (sell_amount * mkt_return) \div PM
             sold == [b EXCEPT !.cash = @ + sell_amount + realized_gain,
                               !.investments = @ - sell_amount,
                               !.investment_positions = Put(@, mid, position - sell_amount)]
             yielded == <<ActionEvent("transaction", step, i, "DIVEST_MARKET", sell_amount)>>
                       \o (IF Abs(realized_gain) > UNIT \div 2
                           THEN <<Event("market_gain", step, i, realized_gain)>>
                           ELSE <<>>)
             w2 == IF skip \/ sell_fraction <= 0 THEN w
                   ELSE [banks |-> [w.banks EXCEPT ![i] = sold],
                         flows |-> Put(w.flows, mid, Get(w.flows, mid) - sell_amount),
                         events |-> w.events \o yielded]
         IN ProfitTakeBank(w2, i, Tail(mids), mk, step, u)

RECURSIVE ProfitTakingPass(_, _, _, _, _, _)
ProfitTakingPass(w, ids, mids, mk, step, u) ==
    IF ids = <<>> THEN w
    ELSE LET i == Head(ids)
             b == w.banks[i]
             w2 == IF b.is_defaulted \/ b.investments < 5 * UNIT THEN w
                   ELSE ProfitTakeBank(w, i, mids, mk, step, u)
         IN ProfitTakingPass(w2, Tail(ids), mids, mk, step, u)

\* The automatic profit-taking pass (lines 397-474)
ProfitTaking ==
    /\ pc = "profit_taking"
    /\ \E u \in UnitDraws :
         LET w == ProfitTakingPass([banks |-> banks, flows |-> step_market_flows,
                                    events |-> <<>>],
                                   BankOrder(banks), MarketOrder(config), markets, t, u)
         IN /\ banks' = w.banks
            /\ step_market_flows' = w.flows
            /\ stream' = stream \o w.events
    /\ pc' = "book_profit"
    /\ UNCHANGED <<config, t, bank_idx, markets, defaults_this_step, cascade_depth,
                   is_running, is_paused, control_queue, ledger, ncommands, npolls>>

\* Bank.book_investment_profit over the positions mids; w holds the bank,
\* the total profit and the transactions logged
RECURSIVE BookInvestmentProfit(_, _, _, _, _)
BookInvestmentProfit(w, i, mids, mk, step) ==
    IF mids = <<>> THEN w
    ELSE LET mid == Head(mids)
             invested_amount == Get(w.bank.investment_positions, mid)
             profit == (invested_amount * GetReturn(mk[mid])) \div PM
             w2 == IF mid \in DOMAIN mk /\ invested_amount > 0
                   THEN [bank |-> [w.bank EXCEPT !.cash = @ + profit],
                         total |-> w.total + profit,
                         txs |-> IF profit # 0
                                 THEN Append(w.txs,
                                             Tx(step, i, NoBank, mid,
                                                IF profit > 0 THEN "INVEST" ELSE "DIVEST",
                                                Abs(profit)))
                                 ELSE w.txs]
                   ELSE w
         IN BookInvestmentProfit(w2, i, Tail(mids), mk, step)

RECURSIVE BookProfits(_, _, _, _, _)
BookProfits(w, ids, mids, mk, step) ==
    IF ids = <<>> THEN w
    ELSE LET i == Head(ids)
             r == BookInvestmentProfit([bank |-> w.banks[i], total |-> 0, txs |-> <<>>],
                                       i, mids, mk, step)
             w2 == IF w.banks[i].is_defaulted THEN w
                   ELSE [banks |-> [w.banks EXCEPT ![i] = r.bank],
                         txs |-> w.txs \o r.txs,
                         events |-> IF Abs(r.total) > UNIT \div 10
                                    THEN Append(w.events,
                                                Event("profit_booking", step, i, r.total))
                                    ELSE w.events]
         IN BookProfits(w2, Tail(ids), mids, mk, step)

\* Mark-to-market profit booking, every 5 steps (lines 476-488)
BookProfit ==
    /\ pc = "book_profit"
    /\ LET w == IF t % 5 = 0
                THEN BookProfits([banks |-> banks, txs |-> <<>>, events |-> <<>>],
                                 BankOrder(banks), MarketOrder(config), markets, t)
                ELSE [banks |-> banks, txs |-> <<>>, events |-> <<>>]
       IN /\ banks' = w.banks
          /\ ledger' = ledger \o w.txs
          /\ stream' = stream \o w.events
    /\ pc' = "loans"
    /\ UNCHANGED <<config, t, bank_idx, markets, step_market_flows,
                   defaults_this_step, cascade_depth, is_running, is_paused,
                   control_queue, ncommands, npolls>>

\* Interest and repayment of the loan lender -> borrower_id (lines 495-536)
ServiceLoan(w, lender, borrower_id, step) ==
    LET loan_amount == Get(w.banks[lender].loan_positions, borrower_id)
        skip == loan_amount <= 0 \/ borrower_id \notin DOMAIN w.banks
                \/ w.banks[borrower_id].is_defaulted
        interest == (loan_amount * 5) \div 100
        pays == w.banks[borrower_id].cash >= interest
        b1 == IF pays
              THEN [w.banks EXCEPT ![borrower_id].cash = @ - interest,
                                   ![lender].cash = @ + interest]
              ELSE w.banks
        e1 == IF pays
              THEN Append(w.events, Event("interest_payment", step, borrower_id, interest))
              ELSE w.events
        repayment == Min(loan_amount \div 10, (b1[borrower_id].cash * 3) \div 10)
        b2 == IF repayment > 0
              THEN [b1 EXCEPT ![borrower_id].cash = @ - repayment,
                              ![borrower_id].borrowed = @ - repayment,
                              ![lender].cash = @ + repayment,
                              ![lender].loans_given = @ - repayment,
                              ![lender].loan_positions =
                                  Put(@, borrower_id, loan_amount - repayment)]
              ELSE b1
        e2 == IF repayment > 0
              THEN Append(e1, Event("loan_repayment", step, borrower_id, repayment))
              ELSE e1
    IN IF skip THEN w ELSE [banks |-> b2, events |-> e2]

RECURSIVE ServiceLender(_, _, _, _)
ServiceLender(w, lender, borrowers, step) ==
    IF borrowers = <<>> THEN w
    ELSE ServiceLender(
            IF Head(borrowers) \in DOMAIN w.banks[lender].loan_positions
            THEN ServiceLoan(w, lender, Head(borrowers), step) ELSE w,
            lender, Tail(borrowers), step)

RECURSIVE ServiceLoans(_, _, _)
ServiceLoans(w, lenders, step) ==
    IF lenders = <<>> THEN w
    ELSE ServiceLoans(
            IF w.banks[Head(lenders)].is_defaulted THEN w
            ELSE ServiceLender(w, Head(lenders), BankOrder(w.banks), step),
            Tail(lenders), step)

\* Loan interest and repayments (lines 490-536)
LoanService ==
    /\ pc = "loans"
    /\ LET w == ServiceLoans([banks |-> banks, events |-> <<>>], BankOrder(banks), t)
       IN /\ banks' = w.banks
          /\ stream' = stream \o w.events
    /\ pc' = "default_check"
    /\ UNCHANGED <<config, t, bank_idx, markets, step_market_flows,
                   defaults_this_step, cascade_depth, is_running, is_paused,
                   control_queue, ledger, ncommands, npolls>>

CascadeRounds == 5      \* for _ in range(5) of _propagate_cascades

\* check_default that makes the flag follow the balance sheet
RECURSIVE CheckDefaultsBySheet(_, _)
CheckDefaultsBySheet(w, ids) ==
    IF ids = <<>> THEN w
    ELSE LET i == Head(ids)
             b == w.banks[i]
         IN CheckDefaultsBySheet(
               [banks |-> [w.banks EXCEPT ![i].is_defaulted = SheetDefaulted(b)],
                new_defaults |-> IF ~b.is_defaulted /\ SheetDefaulted(b)
                                 THEN Append(w.new_defaults, i)
                                 ELSE w.new_defaults],
               Tail(ids))

\* Bank.check_default for the banks ids in order; w holds the banks and the
\* ids that newly defaulted
RECURSIVE CheckDefaults(_, _)
CheckDefaults(w, ids) ==
    IF ids = <<>> THEN w
    ELSE LET i == Head(ids)
             b == w.banks[i]
         IN CheckDefaults(
               IF ~b.is_defaulted /\ SheetDefaulted(b)
               THEN [banks |-> [w.banks EXCEPT ![i].is_defaulted = TRUE],
                     new_defaults |-> Append(w.new_defaults, i)]
               ELSE w,
               Tail(ids))

\* The source a cascade loss is booked under: f"Bank_{defaulted_id}_default"
LossSource(defaulted_id) == <<"Bank", defaulted_id, "default">>

\* a cascade body that books the loss and leaves the position in place
CascadeHitKeepsPosition(w, defaulted_id, i, step) ==
    LET b == w.banks[i]
        exposure == Get(b.loan_positions, defaulted_id)
        hit == [ApplyLoss(b, exposure) EXCEPT !.loans_given = @ - exposure]
        defaults == SheetDefaulted(hit)
    IN IF b.is_defaulted \/ exposure <= 0 THEN w
       ELSE [banks |-> [w.banks EXCEPT ![i] = [hit EXCEPT !.is_defaulted = defaults]],
             txs |-> Append(w.txs, Tx(step, i, NoBank, LossSource(defaulted_id),
                                      "DEFAULT_LOSS", Min(exposure, b.cash))),
             new |-> IF defaults THEN Append(w.new, i) ELSE w.new,
             count |-> IF defaults THEN w.count + 1 ELSE w.count]

\* a cascade body that removes the position and leaves loans_given as it was
CascadeHitKeepsLoansGiven(w, defaulted_id, i, step) ==
    LET b == w.banks[i]
        exposure == Get(b.loan_positions, defaulted_id)
        hit == [ApplyLoss(b, exposure) EXCEPT !.loan_positions = Del(@, defaulted_id)]
        defaults == SheetDefaulted(hit)
    IN IF b.is_defaulted \/ exposure <= 0 THEN w
       ELSE [banks |-> [w.banks EXCEPT ![i] = [hit EXCEPT !.is_defaulted = defaults]],
             txs |-> Append(w.txs, Tx(step, i, NoBank, LossSource(defaulted_id),
                                      "DEFAULT_LOSS", Min(exposure, b.cash))),
             new |-> IF defaults THEN Append(w.new, i) ELSE w.new,
             count |-> IF defaults THEN w.count + 1 ELSE w.count]

\* The body of _propagate_cascades for one defaulted id and one bank
CascadeHit(w, defaulted_id, i, step) ==
    LET b == w.banks[i]
        exposure == Get(b.loan_positions, defaulted_id)
        hit == [ApplyLoss(b, exposure) EXCEPT
                   !.loans_given = @ - exposure,
                   !.loan_positions = Del(@, defaulted_id)]
        defaults == SheetDefaulted(hit)
    IN IF b.is_defaulted \/ exposure <= 0 THEN w
       ELSE [banks |-> [w.banks EXCEPT ![i] = [hit EXCEPT !.is_defaulted = defaults]],
             txs |-> Append(w.txs, Tx(step, i, NoBank, LossSource(defaulted_id),
                                      "DEFAULT_LOSS", Min(exposure, b.cash))),
             new |-> IF defaults THEN Append(w.new, i) ELSE w.new,
             count |-> IF defaults THEN w.count + 1 ELSE w.count]

RECURSIVE CascadeOverBanks(_, _, _, _)
CascadeOverBanks(w, defaulted_id, ids, step) ==
    IF ids = <<>> THEN w
    ELSE CascadeOverBanks(CascadeHit(w, defaulted_id, Head(ids), step),
                          defaulted_id, Tail(ids), step)

RECURSIVE CascadeRound(_, _, _)
CascadeRound(w, defaulted, step) ==
    IF defaulted = <<>> THEN w
    ELSE CascadeRound(CascadeOverBanks(w, Head(defaulted), BankOrder(w.banks), step),
                      Tail(defaulted), step)

\* _propagate_cascades: c holds the banks, defaults_this_step, cascade_depth,
\* the transactions logged and cascade_count
RECURSIVE PropagateCascades(_, _, _)
PropagateCascades(c, step, rounds) ==
    IF rounds = 0 THEN c
    ELSE LET r == CascadeRound([banks |-> c.banks, txs |-> c.txs, new |-> <<>>,
                                count |-> c.cascade_count],
                               c.defaults_this_step, step)
         IN IF r.new = <<>>
            THEN [c EXCEPT !.banks = r.banks, !.txs = r.txs]
            ELSE PropagateCascades(
                    [banks |-> r.banks,
                     defaults_this_step |-> c.defaults_this_step \o r.new,
                     cascade_depth |-> c.cascade_depth + 1,
                     txs |-> r.txs,
                     cascade_count |-> r.count],
                    step, rounds - 1)

RECURSIVE DefaultEvents(_, _, _)
DefaultEvents(ids, bs, step) ==
    IF ids = <<>> THEN <<>>
    ELSE <<Event("default", step, Head(ids), Equity(bs[Head(ids)]))>>
         \o DefaultEvents(Tail(ids), bs, step)

\* Default detection and contagion (lines 538-563)
DefaultCheck ==
    /\ pc = "default_check"
    /\ LET d == CheckDefaults([banks |-> banks, new_defaults |-> <<>>], BankOrder(banks))
           listed == defaults_this_step \o d.new_defaults
           idle == [banks |-> d.banks, defaults_this_step |-> listed,
                    cascade_depth |-> cascade_depth, txs |-> <<>>, cascade_count |-> 0]
           c == IF d.new_defaults # <<>>
                THEN PropagateCascades(idle, t, CascadeRounds)
                ELSE idle
       IN /\ banks' = c.banks
          /\ defaults_this_step' = c.defaults_this_step
          /\ cascade_depth' = c.cascade_depth
          /\ ledger' = ledger \o c.txs
          /\ stream' = (stream \o DefaultEvents(d.new_defaults, d.banks, t))
                       \o (IF c.cascade_count > 0
                           THEN <<Event("cascade", t, NoBank, c.cascade_count)>>
                           ELSE <<>>)
    /\ pc' = "risk_update"
    /\ UNCHANGED <<config, t, bank_idx, markets, step_market_flows,
                   is_running, is_paused, control_queue, ncommands, npolls>>

\* a risk update that clamps neither the health score nor the blend
UnclampedRiskAppetite(b, bs) ==
    LET leverage_score == Max(0, PM - Leverage(b) \div 8)
        liquidity_score == Min(PM, LiquidityOf(b) * 2)
        equity_score == Min(PM, (Equity(b) * PM) \div (100 * UNIT))
        stress_penalty == LocalStress(CountNeighborDefaults(b, bs))
        health == (((leverage_score * 3 + liquidity_score * 3 + equity_score * 3) \div 10)
                     * (PM - stress_penalty \div 2)) \div PM
    IN (b.risk_appetite * 8 + health * 2) \div 10

\* The health score and the blended risk_appetite of a bank (lines 571-587)
UpdatedRiskAppetite(b, bs) ==
    LET leverage_score == Max(0, PM - Leverage(b) \div 8)
        liquidity_score == Min(PM, LiquidityOf(b) * 2)
        equity_score == Min(PM, (Equity(b) * PM) \div (100 * UNIT))
        stress_penalty == LocalStress(CountNeighborDefaults(b, bs))
        raw == (((leverage_score * 3 + liquidity_score * 3 + equity_score * 3) \div 10)
                  * (PM - stress_penalty \div 2)) \div PM
        health == Max(50, Min(950, raw))
    IN Max(50, Min(950, (b.risk_appetite * 8 + health * 2) \div 10))

\* The dynamic risk update (lines 565-587)
RiskUpdate ==
    /\ pc = "risk_update"
    /\ banks' = [i \in DOMAIN banks |->
                   IF banks[i].is_defaulted THEN banks[i]
                   ELSE [banks[i] EXCEPT !.risk_appetite =
                                            UpdatedRiskAppetite(banks[i], banks)]]
    /\ pc' = "apply_flows"
    /\ UNCHANGED <<config, t, bank_idx, markets, step_market_flows,
                   defaults_this_step, cascade_depth, is_running, is_paused,
                   control_queue, ledger, stream, ncommands, npolls>>

\* market_movement events of the markets mids after their flows were applied
RECURSIVE MovementEvents(_, _, _)
MovementEvents(mids, mk, step) ==
    IF mids = <<>> THEN <<>>
    ELSE LET m == mk[Head(mids)]
             n == Len(m.price_history)
             price_change == m.price_history[n] - m.price_history[n - 1]
         IN (IF n >= 2 /\ Abs(price_change) * 100 > 2 * m.price_history[n - 1]
             THEN <<Event("market_movement", step, NoBank, m.price)>>
             ELSE <<>>)
            \o MovementEvents(Tail(mids), mk, step)

\* The step's flows applied to the market prices (lines 589-612)
ApplyFlows ==
    /\ pc = "apply_flows"
    /\ \E shock \in [DOMAIN markets -> ShockDraws] :
         LET moved == [mid \in DOMAIN markets |->
                          ApplyFlow(markets[mid], Get(step_market_flows, mid), shock[mid])]
         IN /\ markets' = moved
            /\ stream' = stream \o MovementEvents(MarketOrder(config), moved, t)
    /\ pc' = "step_end"
    /\ UNCHANGED <<config, t, bank_idx, banks, step_market_flows,
                   defaults_this_step, cascade_depth, is_running, is_paused,
                   control_queue, ledger, ncommands, npolls>>

TotalDefaults(bs) == Cardinality({i \in DOMAIN bs : bs[i].is_defaulted})

\* The step summary and the loop's exit when every bank has defaulted
\* (lines 614-659)
StepEnd ==
    /\ pc = "step_end"
    /\ stream' = Append(stream, Event("step_end", t, NoBank, TotalDefaults(banks)))
    /\ pc' = IF TotalDefaults(banks) >= config.num_banks THEN "cleanup" ELSE "for"
    /\ UNCHANGED <<config, t, bank_idx, banks, markets, step_market_flows,
                   defaults_this_step, cascade_depth, is_running, is_paused,
                   control_queue, ledger, ncommands, npolls>>

\* Past the loop: the global state is released and complete is yielded
\* (lines 661-671)
Cleanup ==
    /\ pc = "cleanup"
    /\ is_running' = FALSE
    /\ stream' = Append(stream, Event("complete", NoStep, NoBank, t + 1))
    /\ pc' = "done"
    /\ UNCHANGED <<config, t, bank_idx, banks, markets, step_market_flows,
                   defaults_this_step, cascade_depth, is_paused,
                   control_queue, ledger, ncommands, npolls>>

StreamNext ==
    \/ /\ \E cfg \in ConfigInputs : StartStream(cfg)
       /\ UNCHANGED svars
    \/ /\ NextStep
       /\ UNCHANGED svars
    \/ /\ PauseCheck
       /\ UNCHANGED svars
    \/ /\ PauseWait
       /\ UNCHANGED svars
    \/ /\ PauseTimeout
       /\ UNCHANGED svars
    \/ /\ BankStep
       /\ UNCHANGED svars
    \/ /\ ProfitTaking
       /\ UNCHANGED svars
    \/ /\ BookProfit
       /\ UNCHANGED svars
    \/ /\ LoanService
       /\ UNCHANGED svars
    \/ /\ DefaultCheck
       /\ UNCHANGED svars
    \/ /\ RiskUpdate
       /\ UNCHANGED svars
    \/ /\ ApplyFlows
       /\ UNCHANGED svars
    \/ /\ StepEnd
       /\ UNCHANGED svars
    \/ /\ Cleanup
       /\ UNCHANGED svars
    \/ /\ ControlPause
       /\ UNCHANGED svars
    \/ /\ \E command \in ControlInputs : ControlEnqueue(command)
       /\ UNCHANGED svars
    \/ /\ \E bank_id \in TriggerInputs : TriggerDefault(bank_id)
       /\ UNCHANGED svars

Init == SessionInit /\ StreamInit

SessionSpec == Init /\ [][SessionNext]_vars

StreamSpec == Init /\ [][StreamNext]_vars

\* A stream of a thin borrower and its lender, taken at the head of its step
\* loop right after the init event, when the control endpoint has accepted one
\* delete_bank or add_capital command (lines 768-774) and no pause
ControlConfig ==
    [num_banks |-> NumBanks, num_steps |-> NumSteps, connection_density |-> 1000,
     bank_configs |-> FragileBorrowerConfigs,
     market_configs |-> << [market_id |-> "EQUITY", initial_price |-> 1 * UNIT] >>]

EditInputs == {c \in ControlInputs : c.command \in {"delete_bank", "add_capital"}}

ControlInit ==
    /\ pc = "for"
    /\ config = ControlConfig
    /\ t = -1
    /\ bank_idx = 0
    /\ \E bs \in CreateBanks(ControlConfig.num_banks, ControlConfig.bank_configs) :
          banks \in CreateInterbankNetwork(
                       bs, NumConnections(ControlConfig.num_banks,
                                          ControlConfig.connection_density))
    /\ markets = CreateMarketsFromConfig(EffectiveMarketConfigs(ControlConfig))
    /\ step_market_flows = EmptyDict
    /\ defaults_this_step = <<>>
    /\ cascade_depth = 0
    /\ is_running = TRUE
    /\ is_paused = FALSE
    /\ \E command \in EditInputs : control_queue = <<command>>
    /\ ledger = <<>>
    /\ stream = <<Event("init", NoStep, NoBank, 0)>>
    /\ ncommands = 1
    /\ npolls = 0

ControlNext ==
    \/ /\ NextStep
       /\ UNCHANGED svars
    \/ /\ PauseCheck
       /\ UNCHANGED svars
    \/ /\ PauseWait
       /\ UNCHANGED svars
    \/ /\ PauseTimeout
       /\ UNCHANGED svars
    \/ /\ BankStep
       /\ UNCHANGED svars
    \/ /\ ProfitTaking
       /\ UNCHANGED svars
    \/ /\ BookProfit
       /\ UNCHANGED svars
    \/ /\ LoanService
       /\ UNCHANGED svars
    \/ /\ DefaultCheck
       /\ UNCHANGED svars
    \/ /\ RiskUpdate
       /\ UNCHANGED svars
    \/ /\ ApplyFlows
       /\ UNCHANGED svars
    \/ /\ StepEnd
       /\ UNCHANGED svars
    \/ /\ Cleanup
       /\ UNCHANGED svars
    \/ /\ ControlPause
       /\ UNCHANGED svars
    \/ /\ \E command \in ControlInputs : ControlEnqueue(command)
       /\ UNCHANGED svars
    \/ /\ \E bank_id \in TriggerInputs : TriggerDefault(bank_id)
       /\ UNCHANGED svars

ControlStart == SessionInit /\ ControlInit

ControlSpec == ControlStart /\ [][ControlNext]_vars

----------------------------------------------------------------------------
\* A stream during which start_interactive_simulation is called for another
\* stream.  The variables stay those of the first stream and of the globals it
\* shares (ACTIVE_SIMULATION's flags, GLOBAL_LEDGER); control_queue is the queue
\* the first generator was given.  The other stream's own steps are left out,
\* and so are the queued commands and trigger_default calls sent after the
\* other start: they reach the other stream's queue and state.

\* start_interactive_simulation while a simulation is running: the force stop
\* (lines 686-691), before the sleep of line 693
ForceStop ==
    /\ pc \notin {"idle", "done"}
    /\ is_running
    /\ is_running' = FALSE
    /\ is_paused' = FALSE
    /\ UNCHANGED <<pc, config, t, bank_idx, banks, markets, step_market_flows,
                   defaults_this_step, cascade_depth, control_queue, ledger,
                   stream, ncommands, npolls>>

\* the rest of start_interactive_simulation and the other generator's prologue:
\* ACTIVE_SIMULATION gets a new queue (line 735) and the other stream's state
\* (line 79), the ledger is cleared (line 56) and the flags are set (lines 80-81)
OtherPrologue ==
    /\ pc \notin {"idle", "done"}
    /\ ~is_running
    /\ ledger' = <<>>
    /\ is_running' = TRUE
    /\ is_paused' = FALSE
    /\ UNCHANGED <<pc, config, t, bank_idx, banks, markets, step_market_flows,
                   defaults_this_step, cascade_depth, control_queue, stream,
                   ncommands, npolls>>

OverlapNext ==
    \/ /\ NextStep
       /\ UNCHANGED svars
    \/ /\ PauseCheck
       /\ UNCHANGED svars
    \/ /\ PauseWait
       /\ UNCHANGED svars
    \/ /\ PauseTimeout
       /\ UNCHANGED svars
    \/ /\ BankStep
       /\ UNCHANGED svars
    \/ /\ ProfitTaking
       /\ UNCHANGED svars
    \/ /\ BookProfit
       /\ UNCHANGED svars
    \/ /\ LoanService
       /\ UNCHANGED svars
    \/ /\ DefaultCheck
       /\ UNCHANGED svars
    \/ /\ RiskUpdate
       /\ UNCHANGED svars
    \/ /\ ApplyFlows
       /\ UNCHANGED svars
    \/ /\ StepEnd
       /\ UNCHANGED svars
    \/ /\ Cleanup
       /\ UNCHANGED svars
    \/ /\ ControlPause
       /\ UNCHANGED svars
    \/ /\ ForceStop
       /\ UNCHANGED svars
    \/ /\ OtherPrologue
       /\ UNCHANGED svars

OverlapSpec == ControlStart /\ [][OverlapNext]_vars

----------------------------------------------------------------------------
\* The step loop on a longer loan chain.  The stream is taken at the default
\* check of step 0, with the banks chained by network loans: bank i + 1 has
\* lent to bank i, and the last two banks are a lender and its borrower.

NumChainBanks == 8      \* num_banks of the chained configurations
ChainSteps == 2         \* num_steps of the chained configurations

\* A bank holding a loan position of the amount on every bank of ids
Lending(b, ids, amount) ==
    [b EXCEPT !.loans_given = amount * Cardinality(ids),
              !.loan_positions = [j \in ids |-> amount]]

\* Balance sheets a bank can stand at when the default check begins:
\* negative equity; a lender that one write-off brings down; a lender that
\* survives its write-offs; a borrower one interest payment away from
\* negative equity; a bank without loans
InsolventBank == NewBank(5 * UNIT, 0, 0, 20 * UNIT)
FragileLender(ids, amount) == Lending(NewBank(5 * UNIT, 0, 0, 12 * UNIT), ids, amount)
SoundLender(ids, amount) == Lending(NewBank(50 * UNIT, 0, 0, 0), ids, amount)
ThinBorrower == NewBank(6 * UNIT, 0, 0, 6 * UNIT - 20)
SoundBank == NewBank(50 * UNIT, 0, 0, 0)

ChainInputs ==
    LET n == NumChainBanks
    IN { [i \in 0..(n - 1) |->
            IF i = 0 THEN InsolventBank
            ELSE IF i <= n - 4 THEN FragileLender({i - 1}, a)
            ELSE IF i = n - 3
                 THEN (IF k[1] THEN FragileLender({i - 1}, a) ELSE SoundLender({i - 1}, a))
            ELSE IF i = n - 2
                 THEN (IF k[2] THEN FragileLender(ids, a) ELSE SoundLender(ids, a))
            ELSE (IF k[3] THEN ThinBorrower ELSE SoundBank)] :
         a \in NetworkAmountDraws,
         ids \in {{n - 1}, {n - 3, n - 1}},
         k \in BOOLEAN \X BOOLEAN \X BOOLEAN }

ChainConfig ==
    [num_banks |-> NumChainBanks, num_steps |-> ChainSteps,
     connection_density |-> 0, bank_configs |-> <<>>,
     market_configs |-> CHOOSE mcs \in MarketConfigInputs : TRUE]

ChainInit ==
    /\ pc = "default_check"
    /\ config = ChainConfig
    /\ t = 0
    /\ bank_idx = NumChainBanks
    /\ banks \in ChainInputs
    /\ markets = CreateMarketsFromConfig(EffectiveMarketConfigs(ChainConfig))
    /\ step_market_flows = [mid \in DOMAIN markets |-> 0]
    /\ defaults_this_step = <<>>
    /\ cascade_depth = 0
    /\ is_running = TRUE
    /\ is_paused = FALSE
    /\ control_queue = <<>>
    /\ ledger = <<>>
    /\ stream = <<Event("init", NoStep, NoBank, 0), Event("step_start", 0, NoBank, 0)>>
    /\ ncommands = 0
    /\ npolls = 0

ChainNext ==
    \/ /\ NextStep
       /\ UNCHANGED svars
    \/ /\ PauseCheck
       /\ UNCHANGED svars
    \/ /\ BankStep
       /\ UNCHANGED svars
    \/ /\ ProfitTaking
       /\ UNCHANGED svars
    \/ /\ BookProfit
       /\ UNCHANGED svars
    \/ /\ LoanService
       /\ UNCHANGED svars
    \/ /\ DefaultCheck
       /\ UNCHANGED svars
    \/ /\ RiskUpdate
       /\ UNCHANGED svars
    \/ /\ ApplyFlows
       /\ UNCHANGED svars
    \/ /\ StepEnd
       /\ UNCHANGED svars
    \/ /\ Cleanup
       /\ UNCHANGED svars

ChainStart == SessionInit /\ ChainInit

ChainSpec == ChainStart /\ [][ChainNext]_vars

----------------------------------------------------------------------------
\* The step loop late in a stream.  The stream is taken at the risk update of
\* step LateStep, after enough updates for a weak bank's risk_appetite to have
\* sunk to the floor of 0.05; the ledger and the events are those from that
\* point on.

LateStep == 20          \* the step the stream is taken at

\* risk_appetite values a bank can have by then, per mille
AppetiteInputs == {50, 55, 500}

\* The market after steps without net flow or price change
LateMarket(mc, step) ==
    [initial_price |-> mc.initial_price, price |-> mc.initial_price,
     total_invested |-> 0,
     price_history |-> [k \in 1..(step + 1) |-> mc.initial_price],
     flow_history |-> [k \in 1..step |-> 0]]

\* Balance sheets at the risk update: a bank with next to no cash, assets of 91
\* times its equity, all of them invested; a bank with no assets at all; a
\* defaulted bank with negative equity; a bank without debt
StrainedBank ==
    [NewBank(10, 9 * UNIT, 0, 9 * UNIT) EXCEPT
        !.investment_positions = [mid \in {"EQUITY"} |-> 9 * UNIT]]
EmptyBank == NewBank(0, 0, 0, 0)
DefaultedBank == [InsolventBank EXCEPT !.is_defaulted = TRUE]

LateInputs ==
    { [i \in 0..1 |-> IF i = 0 THEN [b0 EXCEPT !.risk_appetite = r0]
                               ELSE [b1 EXCEPT !.risk_appetite = r1]] :
        b0 \in {StrainedBank, EmptyBank}, r0 \in AppetiteInputs,
        b1 \in {SoundBank, DefaultedBank, StrainedBank}, r1 \in AppetiteInputs }

LateConfig ==
    [num_banks |-> 2, num_steps |-> LateStep + 2,
     connection_density |-> 0, bank_configs |-> <<>>,
     market_configs |-> CHOOSE mcs \in MarketConfigInputs : TRUE]

LateInit ==
    /\ pc = "risk_update"
    /\ config = LateConfig
    /\ t = LateStep
    /\ bank_idx = 2
    /\ banks \in LateInputs
    /\ markets = [mid \in {LateConfig.market_configs[1].market_id} |->
                     LateMarket(LateConfig.market_configs[1], LateStep)]
    /\ step_market_flows = [mid \in DOMAIN markets |-> 0]
    /\ defaults_this_step = <<>>
    /\ cascade_depth = 0
    /\ is_running = TRUE
    /\ is_paused = FALSE
    /\ control_queue = <<>>
    /\ ledger = <<>>
    /\ stream = <<Event("step_start", LateStep, NoBank, 0)>>
    /\ ncommands = 0
    /\ npolls = 0

LateStart == SessionInit /\ LateInit

LateSpec == LateStart /\ [][ChainNext]_vars

----------------------------------------------------------------------------
\* A stream of one bank whose request names no market: the generator then
\* creates the two default markets (lines 60-72).

SoloSteps == 3          \* num_steps of the one-bank stream

SoloConfig ==
    [num_banks |-> 1, num_steps |-> SoloSteps, connection_density |-> 1000,
     bank_configs |-> <<>>, market_configs |-> <<>>]

SoloNext ==
    \/ /\ StartStream(SoloConfig)
       /\ UNCHANGED svars
    \/ ChainNext

SoloSpec == Init /\ [][SoloNext]_vars

----------------------------------------------------------------------------
\* The step loop late in a stream of three banks, taken between two steps: a
\* lender without debt whose two borrowers may have been marked defaulted by
\* delete_bank, which leaves the lender's loan positions in place (lines
\* 142-146), so that the lender observes up to two neighbour defaults.

LenderBank ==
    [NewBank(60 * UNIT, 0, 20 * UNIT, 0) EXCEPT
        !.loan_positions = [j \in {1, 2} |-> 10 * UNIT]]

PolicyInit ==
    /\ pc = "for"
    /\ config = [LateConfig EXCEPT !.num_banks = 3]
    /\ t = LateStep - 1
    /\ bank_idx = 3
    /\ banks \in { [i \in 0..2 |-> IF i = 0 THEN [LenderBank EXCEPT !.risk_appetite = r]
                                   ELSE [SoundBank EXCEPT !.borrowed = 10 * UNIT,
                                                          !.is_defaulted = d[i]]] :
                      r \in {500, 700}, d \in [{1, 2} -> BOOLEAN] }
    /\ markets = [mid \in {LateConfig.market_configs[1].market_id} |->
                     LateMarket(LateConfig.market_configs[1], LateStep)]
    /\ step_market_flows = [mid \in DOMAIN markets |-> 0]
    /\ defaults_this_step = <<>>
    /\ cascade_depth = 0
    /\ is_running = TRUE
    /\ is_paused = FALSE
    /\ control_queue = <<>>
    /\ ledger = <<>>
    /\ stream = <<Event("step_end", LateStep - 1, NoBank, 0)>>
    /\ ncommands = 0
    /\ npolls = 0

PolicyStart == SessionInit /\ PolicyInit

PolicySpec == PolicyStart /\ [][ChainNext]_vars

----------------------------------------------------------------------------
\* Bank.execute_action called directly, one call per time step, on banks of
\* which one is marked defaulted.  bank_idx is the bank of the last call.

MaxCalls == 3           \* execute_action calls in a row

\* A bank with cash, an investment and a loan to bank 1, marked defaulted (as
\* delete_bank marks a bank whatever its balance sheet)
MarkedBank ==
    [NewBank(20 * UNIT, 9 * UNIT, 10 * UNIT, 9 * UNIT) EXCEPT
        !.investment_positions = [mid \in {"EQUITY"} |-> 9 * UNIT],
        !.loan_positions = [j \in {1} |-> 10 * UNIT],
        !.is_defaulted = TRUE]

AmountInputs == {0, 5 * UNIT, 80 * UNIT}

CallInit ==
    /\ pc = "execute_action"
    /\ config = NoConfig
    /\ t = 0
    /\ bank_idx = 0
    /\ banks \in { [i \in 0..1 |-> IF i = 0 THEN b0 ELSE SoundBank] :
                      b0 \in {MarkedBank, DefaultedBank} }
    /\ markets = CreateMarketsFromConfig(CHOOSE mcs \in MarketConfigInputs : TRUE)
    /\ step_market_flows = EmptyDict
    /\ defaults_this_step = <<>>
    /\ cascade_depth = 0
    /\ is_running = FALSE
    /\ is_paused = FALSE
    /\ control_queue = <<>>
    /\ ledger = <<>>
    /\ stream = <<>>
    /\ ncommands = 0
    /\ npolls = 0

ExecuteActionCall(i, action, counterparty_id, market_id, amount) ==
    /\ pc = "execute_action"
    /\ t < MaxCalls
    /\ LET done == BankExecuteAction(banks[i], i, action, t, counterparty_id,
                                     market_id, amount)
       IN /\ banks' = [banks EXCEPT ![i] = done.bank]
          /\ ledger' = ledger \o done.txs
    /\ bank_idx' = i
    /\ t' = t + 1
    /\ UNCHANGED <<pc, config, markets, step_market_flows, defaults_this_step,
                   cascade_depth, is_running, is_paused, control_queue, stream,
                   ncommands, npolls>>

CallNext ==
    /\ \E i \in DOMAIN banks, action \in BankActions,
          counterparty_id \in DOMAIN banks \cup {NoBank},
          market_id \in DOMAIN markets \cup {NoMarket}, amount \in AmountInputs :
          ExecuteActionCall(i, action, counterparty_id, market_id, amount)
    /\ UNCHANGED svars

CallStart == SessionInit /\ CallInit

CallSpec == CallStart /\ [][CallNext]_vars

----------------------------------------------------------------------------
\* Claims about the session lifecycle (SessionSpec)

InitializeCall == \E steps \in StepsInputs : Initialize(steps)

\* One call of a lifecycle operation, accepted or rejected
LifecycleCall ==
    InitializeCall \/ Start \/ Pause \/ Resume \/ Stop \/ ExecuteStep

SessionFrame == <<state, current_step, total_steps, sbanks, connections, events>>

C2_RejectedCallFrame ==
    [][ (LifecycleCall /\ ~result'.ok) => UNCHANGED SessionFrame ]_vars

\* A paused session with banks, a connection and a step behind it that has
\* just refused a call.
C2_Witness ==
    /\ state = "PAUSED" /\ ~result.ok
    /\ current_step > 0 /\ Len(sbanks) > 0 /\ Len(connections) > 0

\* C3: STOPPED and COMPLETED are terminal: a stop in STOPPED fails, and no
\* call changes state or current_step from there.
C3_TerminalStates ==
    [][ /\ (Stop /\ state = "STOPPED") => ~result'.ok
        /\ state \in {"STOPPED", "COMPLETED"}
              => (state' = state /\ current_step' = current_step) ]_vars

\* A completed session that has refused a further call.
C3_Witness ==
    state = "COMPLETED" /\ ~result.ok /\ current_step > 0

----------------------------------------------------------------------------
\* Claims about the event stream and the balance sheets (StreamSpec)

BlockTypes ==
    {"transaction", "market_gain", "profit_booking", "interest_payment",
     "loan_repayment", "default", "cascade", "market_movement"}

\* The last step_start or step_end before position k of the stream, or 0
LastMarker(k) ==
    LET markers == {j \in 1..(k - 1) : stream[j].type \in {"step_start", "step_end"}}
    IN IF markers = {} THEN 0
       ELSE CHOOSE j \in markers : \A o \in markers : o <= j

LastEventIs(type) == stream # <<>> /\ stream[Len(stream)].type = type

\* C6: the events of a step N form one block from step_start(N) to
\* step_end(N); every transaction, market_gain, profit_booking,
\* interest_payment, loan_repayment, default, cascade and market_movement
\* event lies in the block of the step it carries, nothing else lies in a
\* block, and the steps of successive blocks strictly increase.
C6_StepBlocks ==
    \A k \in DOMAIN stream :
        LET e == stream[k]
            j == LastMarker(k)
            open == j # 0 /\ stream[j].type = "step_start"
        IN /\ e.type \in BlockTypes \cup {"step_end"}
                 => open /\ stream[j].step = e.step
           /\ open => e.type \in BlockTypes \cup {"step_end"}
           /\ e.type = "step_start" => j = 0 \/ stream[j].step < e.step

\* A stream whose second block has just ended, with a default and a loan
\* repayment in its first block and a transaction in its second.
C6_Witness ==
    /\ LastEventIs("step_end") /\ stream[Len(stream)].step = 1
    /\ \E k \in DOMAIN stream : stream[k].type = "default" /\ stream[k].step = 0
    /\ \E k \in DOMAIN stream : stream[k].type = "loan_repayment" /\ stream[k].step = 0
    /\ \E k \in DOMAIN stream : stream[k].type = "transaction" /\ stream[k].step = 1

\* C7: within a step the aggregated market flows are applied to the prices
\* before default detection and cascade propagation run, and the
\* risk-appetite update comes after them: when default detection or the risk
\* update is about to run in step t, every market has had the flows of steps
\* 0..t applied.
C7_FlowsBeforeContagion ==
    pc \in {"default_check", "risk_update"}
    => \A mid \in DOMAIN markets : Len(markets[mid].flow_history) = t + 1

\* C8: a bank whose is_defaulted flag is set keeps it through every later
\* step and control command, and its loans_given never increases.
C8_DefaultIsPermanent ==
    [][ \A i \in DOMAIN banks :
           banks[i].is_defaulted
           => /\ i \in DOMAIN banks'
              /\ banks'[i].is_defaulted
              /\ banks'[i].loans_given <= banks[i].loans_given ]_vars

\* A bank that defaulted in step 0, received an add_capital afterwards, and
\* is still defaulted when step 1 has ended.
C8_Witness ==
    /\ LastEventIs("step_end") /\ stream[Len(stream)].step = 1
    /\ \E k, j \in DOMAIN stream :
          /\ k < j
          /\ stream[k].type = "default"
          /\ stream[j].type = "capital_added"
          /\ stream[j].bank_id = stream[k].bank_id
          /\ banks[stream[k].bank_id].is_defaulted

\* C9: at every step_end every bank has cash, investments, loans_given and
\* borrowed >= 0; stated for the streams started with the two
\* well-capitalised banks.
C9_NonNegativeAtStepEnd ==
    (LastEventIs("step_end") /\ config.bank_configs = SoundBankConfigs)
    => \A i \in DOMAIN banks :
          /\ banks[i].cash >= 0
          /\ banks[i].investments >= 0
          /\ banks[i].loans_given >= 0
          /\ banks[i].borrowed >= 0

\* C10: at every step_end every bank has investments equal to the sum of its
\* investment_positions and loans_given equal to the sum of its
\* loan_positions.
C10_PositionSums ==
    LastEventIs("step_end")
    => \A i \in DOMAIN banks :
          /\ banks[i].investments = SumFn(banks[i].investment_positions)
          /\ banks[i].loans_given = SumFn(banks[i].loan_positions)

\* C11: in a single step default propagation runs at most 5 cascade rounds,
\* and the cascade depth recorded for a step never exceeds 5.  Each round of
\* _propagate_cascades that finds a new default adds one to cascade_depth, so
\* the rounds of a step are bounded by the growth of cascade_depth in it.
C11_CascadeBound ==
    [][ /\ cascade_depth' - cascade_depth <= CascadeRounds
        /\ cascade_depth' <= CascadeRounds ]_vars


\* No non-defaulted bank of bs holds a positive loan position against a bank
\* listed in defaulted
NoOpenExposure(bs, defaulted) ==
    \A k \in DOMAIN defaulted, i \in DOMAIN bs :
        ~bs[i].is_defaulted => Get(bs[i].loan_positions, defaulted[k]) <= 0

\* C12 (as stated): after the contagion phase of a step no non-defaulted bank
\* holds a positive loan position against a bank that defaulted in that step.
C12_ExposuresWrittenOff ==
    pc = "risk_update" => NoOpenExposure(banks, defaults_this_step)

\* C12 (amended): when the contagion phase of a step ends before its fifth
\* cascade round finds a new default, no non-defaulted bank holds a positive
\* loan position against a bank that defaulted in that step.
C12_WrittenOffWithinFiveRounds ==
    [][ (pc = "default_check" /\ pc' = "risk_update"
         /\ cascade_depth' - cascade_depth < CascadeRounds)
        => NoOpenExposure(banks', defaults_this_step') ]_vars

\* Four cascade rounds found a default and the fifth wrote off the exposure
\* of a lender that survived it
C12_Witness ==
    /\ pc = "risk_update"
    /\ t = 0
    /\ cascade_depth = CascadeRounds - 1
    /\ Len(defaults_this_step) = CascadeRounds
    /\ \E i \in DOMAIN banks :
          /\ ~banks[i].is_defaulted
          /\ DOMAIN banks[i].loan_positions = {}
          /\ \E k \in DOMAIN ledger :
                ledger[k].initiator_id = i /\ ledger[k].transaction_type = "DEFAULT_LOSS"

\* The ledger entries of log at the indexes ks that book a loss of lender L
\* under the default of D
LossEntries(log, ks, L, D) ==
    {k \in ks : /\ log[k].transaction_type = "DEFAULT_LOSS"
                /\ log[k].initiator_id = L
                /\ log[k].counterparty_name = LossSource(D)}

\* The banks listed in defaulted that lender b holds a positive position against
ExposedTo(b, defaulted) ==
    {d \in DOMAIN b.loan_positions :
        b.loan_positions[d] > 0 /\ \E k \in DOMAIN defaulted : defaulted[k] = d}

\* The step from the default check wrote off every position lender L held
\* against the banks that defaulted in it: one loss entry each, loans_given
\* lower by the positions, the positions gone, and no second entry in the ledger
WrittenOffOnce(L) ==
    LET hit == ExposedTo(banks[L], defaults_this_step')
        added == (Len(ledger) + 1)..Len(ledger')
    IN /\ \A D \in hit :
             /\ Cardinality(LossEntries(ledger', added, L, D)) = 1
             /\ D \notin DOMAIN banks'[L].loan_positions
             /\ Cardinality(LossEntries(ledger', DOMAIN ledger', L, D)) = 1
       /\ banks'[L].loans_given
             = banks[L].loans_given - SumOver(banks[L].loan_positions, hit)

\* C13 (as stated): when a bank defaults in a step, every bank that is not
\* defaulted and holds a positive exposure to it gets exactly one loss entry
\* for it in that step, its loans_given falls by exactly the exposure, the
\* position is removed, and no second loss is ever booked for it.
C13_LossAppliedOnce ==
    [][ (pc = "default_check" /\ pc' = "risk_update")
        => \A L \in DOMAIN banks : ~banks'[L].is_defaulted => WrittenOffOnce(L) ]_vars

\* C13 (amended): the same, for a contagion phase that ends before its fifth
\* cascade round finds a new default.
C13_LossAppliedOnceWithinFiveRounds ==
    [][ (pc = "default_check" /\ pc' = "risk_update"
         /\ cascade_depth' - cascade_depth < CascadeRounds)
        => \A L \in DOMAIN banks : ~banks'[L].is_defaulted => WrittenOffOnce(L) ]_vars

\* In the second step a lender survived the default of its borrower: one loss
\* entry of that step names the borrower, and the position is gone
C13_Witness ==
    /\ pc = "risk_update"
    /\ t = 1
    /\ \E L \in DOMAIN banks, k \in DOMAIN defaults_this_step :
          /\ ~banks[L].is_defaulted
          /\ defaults_this_step[k] \notin DOMAIN banks[L].loan_positions
          /\ LossEntries(ledger, DOMAIN ledger, L, defaults_this_step[k]) # {}
          /\ banks[L].loans_given >= 0

\* The default events for bank i among the events of log at the indexes ks
DefaultEventsOf(log, ks, i) ==
    {k \in ks : log[k].type = "default" /\ log[k].bank_id = i}

\* C14: every bank whose is_defaulted flag becomes true during a step, the
\* banks that default in a cascade round included, has exactly one default
\* event among the events that step emits, and no bank has more than one
\* default event in the stream.
C14_OneDefaultEvent ==
    [][ \A i \in DOMAIN banks :
          /\ (pc = "default_check" /\ pc' = "risk_update"
                /\ ~banks[i].is_defaulted /\ banks'[i].is_defaulted)
             => Cardinality(DefaultEventsOf(stream', (Len(stream) + 1)..Len(stream'), i)) = 1
          /\ Cardinality(DefaultEventsOf(stream, DOMAIN stream, i)) <= 1 ]_vars

BeforeDefaultCheck == {"banks", "profit_taking", "book_profit", "loans", "default_check"}

Queued(kind) == \E k \in DOMAIN control_queue : control_queue[k].command = kind

\* C17: a stop accepted while the simulation is running, paused or not, is
\* processed: the stream has at most one stopped event, nothing follows it,
\* and a stream that has ended after a stop was accepted ended with stopped.
C17_StopEndsStream ==
    /\ \A k \in DOMAIN stream : stream[k].type = "stopped" => k = Len(stream)
    /\ (pc \in {"done", "returned"} /\ Queued("stop")) => LastEventIs("stopped")

\* The stream has had no pause: no paused event was emitted and none is due
NeverPaused == ~is_paused /\ \A k \in DOMAIN stream : stream[k].type # "paused"

\* C18: a delete_bank or add_capital command accepted while the simulation is
\* running and not paused takes effect before the bank-processing phases of
\* the next step, with no pause needed: when the command was accepted before
\* step 0 and the stream was never paused, it has left the head of the queue
\* by the time the banks of step 1 are processed.
C18_EditAppliedByNextStep ==
    (t = 1 /\ pc = "banks" /\ NeverPaused)
    => (control_queue = <<>> \/ Head(control_queue) \notin EditInputs)

\* How many commands of the given kind wait in queue q
NumQueued(q, kind) == Cardinality({k \in DOMAIN q : q[k].command = kind})

\* C19: a resume issued while the simulation is not paused is rejected and
\* has no later effect: the queue gains no resume while is_paused is false,
\* and when a pause is accepted no earlier resume is waiting to end it.
C19_ResumeNeedsPause ==
    [][ /\ ~is_paused => NumQueued(control_queue', "resume") <= NumQueued(control_queue, "resume")
        /\ (~is_paused /\ is_paused') => ~Queued("resume") ]_vars

\* The events a step yields that must not appear while the stream is paused
StepEventTypes == {"step_start", "transaction", "step_end"}

\* C20: once a pause has been accepted no step_start is emitted until a
\* resume has been processed, and no step_start, transaction or step_end
\* event follows a paused event without a resumed event between them.
C20_PauseHoldsSteps ==
    [][ /\ is_paused
           => \A k \in (Len(stream) + 1)..Len(stream') : stream'[k].type # "step_start"
        /\ \A k \in DOMAIN stream', j \in DOMAIN stream' :
              (k < j /\ stream'[k].type = "paused" /\ stream'[j].type \in StepEventTypes)
              => \E m \in (k + 1)..(j - 1) : stream'[m].type = "resumed" ]_vars

\* The stream was paused between two steps: it shows the step_end of step 0,
\* paused, resumed and only then the step_start of step 1
C20_Witness ==
    \E k \in DOMAIN stream :
        /\ k + 3 <= Len(stream)
        /\ stream[k].type = "step_end" /\ stream[k].step = 0
        /\ stream[k + 1].type = "paused"
        /\ stream[k + 2].type = "resumed"
        /\ stream[k + 3].type = "step_start" /\ stream[k + 3].step = 1

\* What a pause and its resume must leave alone
SimulationFrame == <<banks, markets, ledger, t, defaults_this_step, cascade_depth>>

\* C21: a pause followed by a resume leaves every bank, every market, the
\* ledger and the step counter unchanged: accepting the pause, yielding
\* paused, polling an empty queue and processing the resume change none of
\* them, and after the resume the generator is back at the head of the same
\* step.
C21_PauseResumeFrame ==
    [][ /\ (is_paused' # is_paused \/ (pc = "while" /\ is_paused)
             \/ (pc = "wait" /\ control_queue = <<>>)
             \/ (pc = "wait" /\ control_queue # <<>>
                 /\ Head(control_queue).command = "resume"))
           => UNCHANGED SimulationFrame
        /\ (is_paused /\ ~is_paused') => pc' = "while" ]_vars

\* The resume of a pause taken at the head of step 1 has just been processed
C21_Witness ==
    /\ LastEventIs("resumed")
    /\ pc = "while"
    /\ t = 1
    /\ ~is_paused
    /\ ledger # <<>>

\* C22: for every existing non-defaulted bank id, the first id included,
\* trigger_default(id) sets that bank's is_defaulted flag.
C22_TriggerDefaultMarks ==
    [][ \A bank_id \in TriggerInputs :
          (TriggerDefault(bank_id) /\ bank_id \in DOMAIN banks /\ ~banks[bank_id].is_defaulted)
          => banks'[bank_id].is_defaulted ]_vars

\* C23: after delete_bank(D) has been processed D is defaulted, and past the
\* contagion phase of the next step no non-defaulted bank holds a positive
\* loan position against D.
C23_DeletedBankWrittenOff ==
    pc = "risk_update"
    => \A k \in DOMAIN stream :
          stream[k].type = "bank_deleted"
          => /\ banks[stream[k].bank_id].is_defaulted
             /\ \A i \in DOMAIN banks :
                   ~banks[i].is_defaulted
                   => Get(banks[i].loan_positions, stream[k].bank_id) <= 0

\* The generator is about to process an add_capital command for a bank it has
AddCapitalDue ==
    /\ pc = "wait"
    /\ control_queue # <<>>
    /\ Head(control_queue).command = "add_capital"
    /\ Head(control_queue).bank_id \in DOMAIN banks

SheetOf(b) ==
    <<b.cash, b.investments, b.loans_given, b.borrowed, b.loan_positions,
      b.investment_positions>>

\* The entries the step appends to the ledger for bank i
NewEntriesOf(i) ==
    {k \in (Len(ledger) + 1)..Len(ledger') : ledger'[k].initiator_id = i}

\* The action of bank i in the step is booked as the claim requires: a changed
\* balance sheet comes with exactly one new entry, HOARD_CASH changes no field
\* and logs one REPAY of 0 against SELF, and an action that changes nothing
\* logs no entry
BookedOnce(i) ==
    /\ SheetOf(banks'[i]) # SheetOf(banks[i]) => Cardinality(NewEntriesOf(i)) = 1
    /\ (banks'[i].action_history # banks[i].action_history
          /\ banks'[i].last_action = "HOARD_CASH")
       => /\ SheetOf(banks'[i]) = SheetOf(banks[i])
          /\ Cardinality(NewEntriesOf(i)) = 1
          /\ \A k \in NewEntriesOf(i) :
                /\ ledger'[k].transaction_type = "REPAY"
                /\ ledger'[k].amount = 0
                /\ ledger'[k].counterparty_name = "SELF"
    /\ (SheetOf(banks'[i]) = SheetOf(banks[i]) /\ banks'[i].last_action # "HOARD_CASH")
       => NewEntriesOf(i) = {}

\* C25: every state-changing action of a step's bank actions and of its
\* profit-taking pass appends exactly one Transaction to the ledger, an action
\* that changes nothing appends none, and HOARD_CASH changes no balance-sheet
\* field and appends exactly one REPAY of amount 0 against SELF.
C25_OneTransactionPerAction ==
    [][ ((pc = "banks" /\ bank_idx' # bank_idx) \/ (pc = "profit_taking" /\ pc' # pc))
        => \A i \in DOMAIN banks : BookedOnce(i) ]_vars

\* C26: after every Market.apply_flow the market's price is at least 1.0 and
\* exactly one entry has been appended to price_history (the new price) and
\* to flow_history (the net flow applied).
C26_ApplyFlowFloor ==
    [][ (pc = "apply_flows" /\ pc' = "step_end")
        => \A mid \in DOMAIN markets :
              /\ markets'[mid].price >= 1 * UNIT
              /\ markets'[mid].price_history
                    = Append(markets[mid].price_history, markets'[mid].price)
              /\ markets'[mid].flow_history
                    = Append(markets[mid].flow_history, Get(step_market_flows, mid)) ]_vars

\* A market took a negative net flow and its price rests on the floor
C26_Witness ==
    /\ pc = "step_end"
    /\ \E mid \in DOMAIN markets :
          LET m == markets[mid]
          IN /\ m.flow_history # <<>>
             /\ m.flow_history[Len(m.flow_history)] < 0
             /\ m.price = 1 * UNIT
             /\ Len(m.price_history) = Len(m.flow_history) + 1

\* C27: at every step_end, and at every point of the step loop besides, every
\* bank's risk_appetite lies in [0.05, 0.95].
C27_RiskAppetiteRange ==
    \A i \in DOMAIN banks : banks[i].risk_appetite >= 50 /\ banks[i].risk_appetite <= 950

\* At a step_end a bank whose health score is under 0.05 has its
\* risk_appetite on the floor
C27_Witness ==
    /\ LastEventIs("step_end")
    /\ \E i \in DOMAIN banks :
          /\ ~banks[i].is_defaulted
          /\ banks[i].risk_appetite = 50
          /\ UnclampedRiskAppetite(banks[i], banks) < 50

\* C28: two simulations with the same configuration emit the same events:
\* from one and the same state of a simulation (there is no seed in it), the
\* events the price update yields do not depend on the draw apply_flow takes.
C28_DrawsFixedBySession ==
    [][ (pc = "apply_flows" /\ pc' = "step_end")
        => \A shock \in [DOMAIN markets -> ShockDraws] :
              stream' = stream \o MovementEvents(MarketOrder(config),
                            [mid \in DOMAIN markets |->
                                ApplyFlow(markets[mid], Get(step_market_flows, mid),
                                          shock[mid])], t) ]_vars

\* C29: starting another streaming simulation changes nothing of a simulation
\* that is still running: not its banks, not its ledger, not its running and
\* paused flags, not its control queue.
C29_OtherStartLeavesStream ==
    [][ (ForceStop \/ OtherPrologue)
        => UNCHANGED <<banks, ledger, is_running, is_paused, control_queue>> ]_vars

C31_SoloBankHoards ==
    \A k \in DOMAIN stream :
        /\ stream[k].type = "transaction" => stream[k].action = "HOARD_CASH"
        /\ stream[k].type # "default"
        /\ stream[k].type = "step_end" => stream[k].amount = 0

\* C32: every operation that changes a balance sheet (a bank action, a
\* profit-taking sale, a loan repayment, a cascade write-off, the creation of
\* the interbank network) changes investments by the change of the sum of
\* investment_positions and loans_given by the change of the sum of
\* loan_positions.
PositionsFollow(old, new) ==
    /\ new.investments - old.investments
          = SumFn(new.investment_positions) - SumFn(old.investment_positions)
    /\ new.loans_given - old.loans_given
          = SumFn(new.loan_positions) - SumFn(old.loan_positions)

C32_PositionsFollowTotals ==
    [][ IF pc = "idle"
        THEN pc' # "idle"
             => \E bs \in CreateBanks(config'.num_banks, config'.bank_configs) :
                   \A i \in DOMAIN banks' : PositionsFollow(bs[i], banks'[i])
        ELSE \A i \in DOMAIN banks : PositionsFollow(banks[i], banks'[i]) ]_vars

\* The end of a step in which a bank has invested, a sale was made and a loan
\* of the initial network was repaid in part
C32_Witness ==
    /\ pc = "step_end"
    /\ \E k \in DOMAIN stream : stream[k].type = "loan_repayment"
    /\ \E k \in DOMAIN stream :
          stream[k].type = "transaction" /\ stream[k].action = "DIVEST_MARKET"
    /\ \E i \in DOMAIN banks :
          /\ SumFn(banks[i].investment_positions) > 0
          /\ SumFn(banks[i].loan_positions) > 0

\* C33: execute_action on a bank marked defaulted, whatever the action, the
\* counterparty, the market and the amount, changes no field of the bank (its
\* balance sheet, last_action and action_history included) and appends nothing
\* to the ledger.
C33_DefaultedBankUntouched ==
    [][ (t' = t + 1 /\ banks[bank_idx'].is_defaulted)
        => (banks' = banks /\ ledger' = ledger) ]_vars

\* After a call on a bank that is marked defaulted and has cash, an
\* investment and a loan to act with
C33_Witness ==
    /\ pc = "execute_action"
    /\ t > 0
    /\ banks[bank_idx].is_defaulted
    /\ banks[bank_idx].cash > 0
    /\ SumFn(banks[bank_idx].investment_positions) > 0
    /\ SumFn(banks[bank_idx].loan_positions) > 0

\* C34: when the profit-taking prologue of the game-theoretic policy cannot
\* fire and the Nash best response is HOARD, the policy returns DIVEST_MARKET,
\* DECREASE_LENDING or HOARD_CASH and never INVEST_MARKET or INCREASE_LENDING.
HoardResponse(obs) ==
    /\ ~(obs.total_invested > 5 * UNIT /\ obs.best_market_return > 50)
    /\ GetNashEquilibriumAction(obs) = "HOARD"

C34_HoardNeverInvests ==
    (pc = "banks" /\ bank_idx \in DOMAIN banks /\ ~banks[bank_idx].is_defaulted)
    => LET obs == Observation(banks[bank_idx], banks, markets)
       IN HoardResponse(obs)
          => SelectAction(obs) \subseteq {"DIVEST_MARKET", "DECREASE_LENDING", "HOARD_CASH"}

\* C35: the flow of an automatic profit-taking sale of step N is not part of
\* the flow applied to the price in step N: the pass leaves the accumulator
\* that the price update of its own step reads as it found it.
C35_SaleFlowNotInThisStep ==
    [][ (pc = "profit_taking" /\ pc' = "book_profit")
        => step_market_flows' = step_market_flows ]_vars

C37_GainOnDivestedAmount ==
    [][ ( /\ pc = "banks"
          /\ bank_idx' = bank_idx + 1
          /\ stream' # stream
          /\ stream'[Len(stream')].action = "DIVEST_MARKET" )
        => LET i == bank_idx
               div == banks[i].investments - banks'[i].investments
           IN IF div = 0 THEN banks'[i].cash = banks[i].cash
              ELSE \E mid \in DOMAIN markets :
                      /\ Get(banks[i].investment_positions, mid)
                            - Get(banks'[i].investment_positions, mid) = div
                      /\ banks'[i].cash - banks[i].cash
                            = div + (div * GetReturn(markets[mid])) \div PM ]_vars

\* C38: interbank loans are booked on both sides: at every step_end, for
\* every bank b, the loan positions that the lenders hold on b add up to no
\* more than b.borrowed.
LentTo(b) ==
    SumFn([l \in DOMAIN banks |-> Get(banks[l].loan_positions, b)])

C38_LoansBookedOnBothSides ==
    LastEventIs("step_end") => \A b \in DOMAIN banks : LentTo(b) <= banks[b].borrowed

\* C39: market flows match what the banks hold: at every step_end, for every
\* market m, m.total_invested equals the sum of the banks' positions in m.
HeldIn(mid) ==
    SumFn([i \in DOMAIN banks |-> Get(banks[i].investment_positions, mid)])

C39_FlowsMatchPositions ==
    LastEventIs("step_end")
    => \A mid \in DOMAIN markets : markets[mid].total_invested = HeldIn(mid)

\* C40: the event stream agrees with the ledger: every transaction event of a
\* step has exactly one ledger entry appended in that step by the same bank
\* with the same amount, and for INVEST_MARKET and INCREASE_LENDING the
\* reported amount is cash_before - cash_after.
NewTransactionEvents ==
    {k \in DOMAIN stream' \ DOMAIN stream : stream'[k].type = "transaction"}

C40_EventsAgreeWithLedger ==
    [][ /\ (pc = "banks" /\ stream' # stream)
           => LET e == stream'[Len(stream')]
                  i == bank_idx
              IN /\ Len(ledger') = Len(ledger) + 1
                 /\ ledger'[Len(ledger')].initiator_id = e.bank_id
                 /\ ledger'[Len(ledger')].time_step = e.step
                 /\ ledger'[Len(ledger')].amount = e.amount
                 /\ e.action \in {"INVEST_MARKET", "INCREASE_LENDING"}
                       => e.amount = banks[i].cash - banks'[i].cash
        /\ (pc = "profit_taking" /\ pc' = "book_profit")
           => Cardinality(NewTransactionEvents) = Len(ledger') - Len(ledger) ]_vars

====
